---- MODULE Spec2Model ----
(***************************************************************************)
(* Model of the DAT stream decoder of src/src/dat_decompress.rs: the bit   *)
(* reader (pull_byte, read_bits, drop_bits), the canonical Huffman builder *)
(* and decoder (add_symbol, build_huffmantree, read_code), the dynamic     *)
(* table parser (parse_huffmantree) and the token loop (inflate_data).     *)
(*                                                                         *)
(* A u32 is a pair <<high 16 bits, low 16 bits>>, because the registers    *)
(* hold values above 2^31.  u8 and u16 values are naturals.                *)
(***************************************************************************)
EXTENDS Integers, Sequences, FiniteSets, TLC

VARIABLES
    input_data,                 \* the compressed bytes of the call
    build,                      \* "debug" (overflow checks panic) or "release"
    state_data,                 \* StateData: the bit reader
    output_data_size,           \* the u32 receiver of the uncompressed size
    output_data,                \* the byte receiver
    output_twin,                \* the byte receiver of a second call on the same input
    output_position,
    write_size_const_addition,
    huffmantree_symbol,
    huffmantree_copy,
    huffmantree_builder,
    max_count,
    current_code_read_count,
    token,                      \* the last token decoded
    declarations,               \* the add_symbol calls made on huffmantree_builder
    decoded,                    \* the last read_code result of the table exercise
    pc                          \* the position in inflate_dat_file_buffer

vars == <<input_data, build, state_data, output_data_size, output_data, output_twin,
          output_position, write_size_const_addition, huffmantree_symbol,
          huffmantree_copy, huffmantree_builder, max_count,
          current_code_read_count, token, declarations, decoded, pc>>

MAX_BITS_HASH == 8
MAX_CODE_BITS_LENGTH == 32
MAX_SYMBOL_VALUE == 285

\* ------------------------------------------------------------------------
\* 32-bit words as <<high half, low half>>, each half in 0..65535
\* ------------------------------------------------------------------------
Pow2(n) == 2 ^ n

Zero32 == <<0, 0>>
One32 == <<0, 1>>

\* the word whose value is v, for 0 <= v < 2^31
ToU32(v) == <<v \div 65536, v % 65536>>

Hi16(x) == x[1]
Lo16(x) == x[2]

\* TRUE when x < 2^31, and then AsNat(x) is its value
Fits31(x) == x[1] < 32768
AsNat(x) == x[1] * 65536 + x[2]

\* x < bound as an array index check, for a bound below 2^31
Below(x, bound) == Fits31(x) /\ AsNat(x) < bound

\* x << n and x >> n for 0 <= n < 32
Shl(x, n) ==
    IF n = 0 THEN x
    ELSE IF n < 16
    THEN <<(x[1] % Pow2(16 - n)) * Pow2(n) + (x[2] \div Pow2(16 - n)),
           (x[2] % Pow2(16 - n)) * Pow2(n)>>
    ELSE <<(x[2] % Pow2(32 - n)) * Pow2(n - 16), 0>>
Shr(x, n) ==
    IF n = 0 THEN x
    ELSE IF n < 16
    THEN <<x[1] \div Pow2(n),
           (x[1] % Pow2(n)) * Pow2(16 - n) + (x[2] \div Pow2(n))>>
    ELSE <<0, x[1] \div Pow2(n - 16)>>

\* bitwise or of two halves (by halving the width), and of two words
RECURSIVE OrBits(_, _, _)
OrBits(a, b, width) ==
    IF a = 0 THEN b
    ELSE IF b = 0 THEN a
    ELSE IF width = 1 THEN 1
    ELSE OrBits(a \div Pow2(width \div 2), b \div Pow2(width \div 2), width \div 2)
             * Pow2(width \div 2)
         + OrBits(a % Pow2(width \div 2), b % Pow2(width \div 2), width \div 2)
Or16(a, b) == OrBits(a, b, 16)
Or32(x, y) == <<Or16(x[1], y[1]), Or16(x[2], y[2])>>

\* x < y as unsigned numbers
Lt32(x, y) == x[1] < y[1] \/ (x[1] = y[1] /\ x[2] < y[2])

\* wrapping_sub and wrapping_add on u32
Sub32(x, y) ==
    LET lo == x[2] - y[2]
        borrow == IF lo < 0 THEN 1 ELSE 0
        hi == x[1] - y[1] - borrow
    IN  <<(hi + 65536) % 65536, (lo + 65536) % 65536>>
Add32(x, y) ==
    LET lo == x[2] + y[2]
        hi == x[1] + y[1] + (lo \div 65536)
    IN  <<hi % 65536, lo % 65536>>

\* the u32 of four bytes read little-endian (ReadBytesExt::read_u32::<LittleEndian>)
read_u32_le(b0, b1, b2, b3) == <<b3 * 256 + b2, b1 * 256 + b0>>

\* an array of n copies of v, as a sequence: element i of the array is at i + 1
Array(n, v) == [i \in 1..n |-> v] \o << >>

\* ------------------------------------------------------------------------
\* Bit reader (StateData, pull_byte, read_bits, drop_bits)
\* ------------------------------------------------------------------------
\* StateData::default() with bytes_available set from the input length
StateData(input) ==
    [position |-> 0, bytes_available |-> Len(input), buffer_position_bit |-> 0,
     head_data |-> Zero32, buffer_data |-> Zero32, bytes_available_data |-> 0]

\* a pull that also takes the last 1 to 3 bytes of the input, as a word
\* filled up with zero bytes
PullBytePartial(input, sd) ==
    IF sd.bytes_available >= 1
    THEN [state |-> [sd EXCEPT
                        !.position = IF sd.bytes_available >= 4 THEN @ + 4
                                     ELSE @ + sd.bytes_available,
                        !.bytes_available = IF @ >= 4 THEN @ - 4 ELSE 0,
                        !.buffer_position_bit = @ + 32],
          head_data |->
              read_u32_le(input[sd.position + 1],
                          IF sd.bytes_available >= 2 THEN input[sd.position + 2] ELSE 0,
                          IF sd.bytes_available >= 3 THEN input[sd.position + 3] ELSE 0,
                          IF sd.bytes_available >= 4 THEN input[sd.position + 4] ELSE 0),
          bytes_available_data |-> 32]
    ELSE [state |-> sd, head_data |-> Zero32, bytes_available_data |-> 0]

\* pull_byte: the new reader state and the two out-parameters
pull_byte(input, sd) ==
    IF sd.bytes_available >= 4
    THEN [state |-> [sd EXCEPT !.position = @ + 4,
                               !.bytes_available = @ - 4,
                               !.buffer_position_bit = @ + 32],
          head_data |-> read_u32_le(input[sd.position + 1], input[sd.position + 2],
                                    input[sd.position + 3], input[sd.position + 4]),
          bytes_available_data |-> 32]
    ELSE [state |-> sd, head_data |-> Zero32, bytes_available_data |-> 0]

\* A shift amount as the release bld applies it: the u8 subtraction wraps
\* and the shift count is taken modulo 32.  The debug bld panics instead
\* (ShiftPanics) on 32 - n for n > 32 and on a shift by 32 for n = 0.
Wrap8(v) == (v + 256) % 256
Amount(v) == Wrap8(v) % 32
ShiftPanics(bld, bits_number) ==
    bld = "debug" /\ (bits_number = 0 \/ bits_number > 32)

\* read_bits: the top bits_number bits of head; on underflow the value is
\* shifted back up by 32 - bits_number
read_bits(sd, bits_number) ==
    LET value == Shr(sd.head_data, Amount(32 - bits_number))
    IN  IF sd.bytes_available_data < bits_number /\ bits_number < 32
        THEN Shl(value, Amount(32 - bits_number))
        ELSE value

\* drop_bits losing the bits of buffer when a new word is pulled
DropBitsNoStraddle(input, sd, bits_number) ==
    LET new_bits_available == Wrap8(sd.bytes_available_data - bits_number)
        pos == sd.buffer_position_bit + bits_number
    IN  IF new_bits_available >= 32
        THEN IF bits_number = 32
             THEN [sd EXCEPT !.buffer_position_bit = pos,
                             !.head_data = sd.buffer_data,
                             !.buffer_data = Zero32,
                             !.bytes_available_data = new_bits_available]
             ELSE [sd EXCEPT !.buffer_position_bit = pos,
                             !.head_data =
                                 Or32(Shl(sd.head_data, Amount(bits_number)),
                                      Shr(sd.buffer_data, Amount(32 - bits_number))),
                             !.buffer_data = Shl(sd.buffer_data, Amount(bits_number)),
                             !.bytes_available_data = new_bits_available]
        ELSE LET p == pull_byte(input, [sd EXCEPT !.buffer_position_bit = pos])
                 shifted == IF bits_number = 32 THEN Zero32
                            ELSE Shl(sd.head_data, Amount(bits_number))
             IN  [p.state EXCEPT
                     !.head_data =
                         Or32(shifted, Shr(p.head_data, new_bits_available)),
                     !.buffer_data =
                         IF new_bits_available > 0
                         THEN Shl(p.head_data, 32 - new_bits_available)
                         ELSE sd.buffer_data,
                     !.bytes_available_data =
                         new_bits_available + p.bytes_available_data]

\* drop_bits
drop_bits(input, sd, bits_number) ==
    LET new_bits_available == Wrap8(sd.bytes_available_data - bits_number)
        pos == sd.buffer_position_bit + bits_number
    IN  IF new_bits_available >= 32
        THEN IF bits_number = 32
             THEN [sd EXCEPT !.buffer_position_bit = pos,
                             !.head_data = sd.buffer_data,
                             !.buffer_data = Zero32,
                             !.bytes_available_data = new_bits_available]
             ELSE [sd EXCEPT !.buffer_position_bit = pos,
                             !.head_data =
                                 Or32(Shl(sd.head_data, Amount(bits_number)),
                                      Shr(sd.buffer_data, Amount(32 - bits_number))),
                             !.buffer_data = Shl(sd.buffer_data, Amount(bits_number)),
                             !.bytes_available_data = new_bits_available]
        ELSE LET p == pull_byte(input, [sd EXCEPT !.buffer_position_bit = pos])
                 shifted == IF bits_number = 32 THEN Zero32
                            ELSE Shl(sd.head_data, Amount(bits_number))
             IN  [p.state EXCEPT
                     !.head_data =
                         Or32(shifted,
                              Or32(Shr(sd.buffer_data, Amount(32 - bits_number)),
                                   Shr(p.head_data, new_bits_available))),
                     !.buffer_data =
                         IF new_bits_available > 0
                         THEN Shl(p.head_data, 32 - new_bits_available)
                         ELSE sd.buffer_data,
                     !.bytes_available_data =
                         new_bits_available + p.bytes_available_data]

\* ------------------------------------------------------------------------
\* Huffman tables (HuffmanTree, HuffmanTreeBuilder, add_symbol,
\* check_bits_head, build_huffmantree, read_code)
\* ------------------------------------------------------------------------
ClassIdx == 0..(MAX_CODE_BITS_LENGTH - 1)
SymbolIdx == 0..(MAX_SYMBOL_VALUE - 1)
HashIdx == 0..(Pow2(MAX_BITS_HASH) - 1)

\* HuffmanTree::default() and HuffmanTreeBuilder::default()
HuffmanTree ==
    [code_comparison |-> Array(MAX_CODE_BITS_LENGTH, Zero32),
     symbol_value_offset |-> Array(MAX_CODE_BITS_LENGTH, 0),
     code_bits |-> Array(MAX_CODE_BITS_LENGTH, 0),
     symbol_value |-> Array(MAX_SYMBOL_VALUE, 0),
     symbol_value_hash_exist |-> Array(Pow2(MAX_BITS_HASH), FALSE),
     symbol_value_hash |-> Array(Pow2(MAX_BITS_HASH), 0),
     code_bits_hash |-> Array(Pow2(MAX_BITS_HASH), 0)]

HuffmanTreeBuilder ==
    [bits_head_exist |-> Array(MAX_CODE_BITS_LENGTH, FALSE),
     bits_head |-> Array(MAX_CODE_BITS_LENGTH, 0),
     bits_body_exist |-> Array(MAX_SYMBOL_VALUE, FALSE),
     bits_body |-> Array(MAX_SYMBOL_VALUE, 0)]

\* add_symbol asking whether any bit length has a head, not this bit length
AddSymbolAnyHead(hb, symbol_data, bit_data) ==
    IF \E i \in ClassIdx : hb.bits_head_exist[i + 1]
    THEN IF symbol_data \notin SymbolIdx
         THEN [builder |-> hb, panic |-> TRUE]
         ELSE [builder |->
                   [hb EXCEPT !.bits_body[symbol_data + 1] = hb.bits_head[bit_data + 1],
                              !.bits_body_exist[symbol_data + 1] = TRUE,
                              !.bits_head[bit_data + 1] = symbol_data],
               panic |-> FALSE]
    ELSE [builder |-> [hb EXCEPT !.bits_head[bit_data + 1] = symbol_data,
                                 !.bits_head_exist[bit_data + 1] = TRUE],
          panic |-> FALSE]

\* add_symbol: panic is an out-of-range index into bits_body
add_symbol(hb, symbol_data, bit_data) ==
    IF hb.bits_head_exist[bit_data + 1]
    THEN IF symbol_data \notin SymbolIdx
         THEN [builder |-> hb, panic |-> TRUE]
         ELSE [builder |->
                   [hb EXCEPT !.bits_body[symbol_data + 1] = hb.bits_head[bit_data + 1],
                              !.bits_body_exist[symbol_data + 1] = TRUE,
                              !.bits_head[bit_data + 1] = symbol_data],
               panic |-> FALSE]
    ELSE [builder |-> [hb EXCEPT !.bits_head[bit_data + 1] = symbol_data,
                                 !.bits_head_exist[bit_data + 1] = TRUE],
          panic |-> FALSE]

\* a check that finds a symbol in every builder, also in an empty one
CheckBitsHeadNever(hb) == FALSE

\* check_bits_head: TRUE when no bit length has a symbol
check_bits_head(hb) == \A i \in ClassIdx : ~hb.bits_head_exist[i + 1]

\* FillHash recording the full hash width as the length of every short code
FillHashFullLength(acc, hash_value, next_hash_value, current_symbol, temp_bits) ==
    IF hash_value >= next_hash_value THEN acc
    ELSE IF next_hash_value - 1 \notin HashIdx THEN [acc EXCEPT !.panic = TRUE]
    ELSE LET fill(old, v) ==
                 SubSeq(old, 1, hash_value)
                     \o Array(next_hash_value - hash_value, v)
                     \o SubSeq(old, next_hash_value + 1, Len(old))
         IN  [acc EXCEPT
                 !.tree.symbol_value_hash_exist = fill(@, TRUE),
                 !.tree.symbol_value_hash = fill(@, current_symbol),
                 !.tree.code_bits_hash = fill(@, MAX_BITS_HASH)]

\* the inner loop of the first part: hash entries [hash_value, next_hash_value)
FillHash(acc, hash_value, next_hash_value, current_symbol, temp_bits) ==
    IF hash_value >= next_hash_value THEN acc
    ELSE IF next_hash_value - 1 \notin HashIdx THEN [acc EXCEPT !.panic = TRUE]
    ELSE LET fill(old, v) ==
                 SubSeq(old, 1, hash_value)
                     \o Array(next_hash_value - hash_value, v)
                     \o SubSeq(old, next_hash_value + 1, Len(old))
         IN  [acc EXCEPT
                 !.tree.symbol_value_hash_exist = fill(@, TRUE),
                 !.tree.symbol_value_hash = fill(@, current_symbol),
                 !.tree.code_bits_hash = fill(@, temp_bits)]

\* Loops are unrolled by halving (Steps(Steps(acc, n / 2), n - n / 2)) so that
\* the evaluation depth stays logarithmic; a loop that has ended ignores the
\* rest of its fuel.  No walk of any builder outlives ChainFuel passes: a chain
\* without a cycle has at most MAX_SYMBOL_VALUE links and one node more; on a
\* cyclic chain (a symbol declared twice) the second part panics in the pass
\* in which symbol_offset reaches MAX_SYMBOL_VALUE, the first part at the
\* latest two passes after temp_code has counted down through the
\* 2^MAX_BITS_HASH codes whose hash entries are in range.
ChainFuel(hb) == MAX_SYMBOL_VALUE + 1

\* one pass of the chain walk of the first part (while data_exist), lengths 0..8
HashStep(hb, acc, temp_bits) ==
    LET hash_value == Lo16(Shl(acc.temp_code, MAX_BITS_HASH - temp_bits))
        next_hash_value ==
            Lo16(Shl(Add32(acc.temp_code, One32), MAX_BITS_HASH - temp_bits))
        filled == FillHash(acc, hash_value, next_hash_value, acc.current_symbol,
                           temp_bits)
    IN  IF filled.panic THEN filled
        ELSE IF acc.current_symbol \notin SymbolIdx THEN [filled EXCEPT !.panic = TRUE]
        ELSE [filled EXCEPT
                 !.data_exist = hb.bits_body_exist[acc.current_symbol + 1],
                 !.current_symbol = hb.bits_body[acc.current_symbol + 1],
                 !.temp_code = Sub32(@, One32)]

RECURSIVE WalkHash(_, _, _, _)
WalkHash(hb, acc, temp_bits, fuel) ==
    IF acc.panic \/ ~acc.data_exist THEN acc
    ELSE IF fuel = 1 THEN HashStep(hb, acc, temp_bits)
    ELSE WalkHash(hb, WalkHash(hb, acc, temp_bits, fuel \div 2), temp_bits,
                  fuel - fuel \div 2)

\* one pass of the chain walk of the second part, lengths 9..31
ClassStep(hb, acc) ==
    IF acc.symbol_offset \notin SymbolIdx \/ acc.current_symbol \notin SymbolIdx
    THEN [acc EXCEPT !.panic = TRUE]
    ELSE [acc EXCEPT
             !.tree.symbol_value[acc.symbol_offset + 1] = acc.current_symbol,
             !.symbol_offset = (@ + 1) % 65536,
             !.data_exist = hb.bits_body_exist[acc.current_symbol + 1],
             !.current_symbol = hb.bits_body[acc.current_symbol + 1],
             !.temp_code = Sub32(@, One32)]

RECURSIVE WalkClass(_, _, _)
WalkClass(hb, acc, fuel) ==
    IF acc.panic \/ ~acc.data_exist THEN acc
    ELSE IF fuel = 1 THEN ClassStep(hb, acc)
    ELSE WalkClass(hb, WalkClass(hb, acc, fuel \div 2), fuel - fuel \div 2)

\* RecordClass keeping symbol_offset itself, one past the class's last symbol
RecordClassPastEnd(w, temp_bits) ==
    IF w.panic THEN w
    ELSE [w EXCEPT
            !.tree.code_comparison[w.temp_code_comparison_index + 1] =
                Shl(Add32(w.temp_code, One32), 32 - temp_bits),
            !.tree.code_bits[w.temp_code_comparison_index + 1] = temp_bits,
            !.tree.symbol_value_offset[w.temp_code_comparison_index + 1] =
                w.symbol_offset,
            !.temp_code_comparison_index = @ + 1]

\* the end of a pass of the second part: the class of the length temp_bits
RecordClass(w, temp_bits) ==
    IF w.panic THEN w
    ELSE [w EXCEPT
            !.tree.code_comparison[w.temp_code_comparison_index + 1] =
                Shl(Add32(w.temp_code, One32), 32 - temp_bits),
            !.tree.code_bits[w.temp_code_comparison_index + 1] = temp_bits,
            !.tree.symbol_value_offset[w.temp_code_comparison_index + 1] =
                (w.symbol_offset + 65535) % 65536,
            !.temp_code_comparison_index = @ + 1]

\* the chain of the length temp_bits: data_exist and current_symbol from the head
ChainStart(hb, acc, temp_bits) ==
    [acc EXCEPT !.data_exist = TRUE,
                !.current_symbol = hb.bits_head[temp_bits + 1]]

\* one pass of either while loop over temp_bits: the chain of that length,
\* then temp_code = (temp_code << 1) + 1
BuildStep(hb, acc, temp_bits) ==
    IF acc.panic THEN acc
    ELSE IF ~hb.bits_head_exist[temp_bits + 1]
    THEN [acc EXCEPT !.temp_code = Add32(Shl(@, 1), One32)]
    ELSE IF temp_bits <= MAX_BITS_HASH
    THEN [WalkHash(hb, ChainStart(hb, acc, temp_bits), temp_bits, ChainFuel(hb))
             EXCEPT !.temp_code = Add32(Shl(@, 1), One32)]
    ELSE [RecordClass(WalkClass(hb, ChainStart(hb, acc, temp_bits),
                                ChainFuel(hb)),
                      temp_bits)
             EXCEPT !.temp_code = Add32(Shl(@, 1), One32)]

\* both while loops over temp_bits: the passes first..last, in order
RECURSIVE BuildLoop(_, _, _, _)
BuildLoop(hb, acc, first, last) ==
    IF acc.panic THEN acc
    ELSE IF first = last THEN BuildStep(hb, acc, first)
    ELSE BuildLoop(hb, BuildLoop(hb, acc, first, (first + last) \div 2),
                   ((first + last) \div 2) + 1, last)

BuildResult(r) == [ok |-> ~r.panic, tree |-> r.tree, panic |-> r.panic]

\* build_huffmantree: ok is the returned bool, tree the table left in
\* huffmantree_data (prev when the builder is empty), panic an index out of range
build_huffmantree(prev, hb) ==
    IF check_bits_head(hb) THEN [ok |-> FALSE, tree |-> prev, panic |-> FALSE]
    ELSE BuildResult(BuildLoop(hb, [tree |-> HuffmanTree, temp_code |-> Zero32,
                                    symbol_offset |-> 0,
                                    temp_code_comparison_index |-> 0,
                                    data_exist |-> FALSE, current_symbol |-> 0,
                                    panic |-> FALSE],
                               0, MAX_CODE_BITS_LENGTH - 1))

\* the scan of the slow path: the first index whose code_comparison is not
\* above the peeked word (MAX_CODE_BITS_LENGTH when the scan leaves the array)
RECURSIVE ScanClass(_, _, _)
ScanClass(tree, peek, index_data) ==
    IF index_data >= MAX_CODE_BITS_LENGTH THEN index_data
    ELSE IF Lt32(peek, tree.code_comparison[index_data + 1])
    THEN ScanClass(tree, peek, index_data + 1)
    ELSE index_data

\* A value that several steps of an operation read is handed on as an argument
\* of the operator of the next step, so that it is written once.

\* read_code leaves on a panic: an index out of range or a shift overflow
ReadCodePanic(sd) == [state |-> sd, symbol_data |-> 0, bits |-> 0, panic |-> TRUE]

\* the tail of both paths: drop_bits(bits) and the symbol
ReadCodeDrop(input, sd, bld, symbol_data, bits) ==
    IF ShiftPanics(bld, bits) THEN ReadCodePanic(sd)
    ELSE [state |-> drop_bits(input, sd, bits), symbol_data |-> symbol_data,
          bits |-> bits, panic |-> FALSE]

\* steps 2-4 of the slow path: the index into symbol_value
SlowSymbolIndex(tree, read_bits_value, index_data) ==
    LET temp_bits == tree.code_bits[index_data + 1]
        adjusted_bits == Sub32(read_bits_value, tree.code_comparison[index_data + 1])
        shifted_bits == Shr(adjusted_bits, Amount(32 - temp_bits))
    IN  (tree.symbol_value_offset[index_data + 1] - Lo16(shifted_bits) + 65536) % 65536

\* step 5 of the slow path
SlowSymbol(tree, input, sd, bld, index_data, symbol_index) ==
    IF symbol_index \notin SymbolIdx THEN ReadCodePanic(sd)
    ELSE ReadCodeDrop(input, sd, bld, tree.symbol_value[symbol_index + 1],
                      tree.code_bits[index_data + 1])

\* the slow path once the scan has stopped at index_data
SlowPath(tree, input, sd, bld, index_data) ==
    IF index_data >= MAX_CODE_BITS_LENGTH THEN ReadCodePanic(sd)
    ELSE SlowSymbol(tree, input, sd, bld, index_data,
                    SlowSymbolIndex(tree, read_bits(sd, 32), index_data))

\* the fast path: symbol and length from the hash arrays
FastPath(tree, input, sd, bld, index_num) ==
    ReadCodeDrop(input, sd, bld, tree.symbol_value_hash[index_num + 1],
                 tree.code_bits_hash[index_num + 1])

\* the choice of the path by the 8 peeked bits
ReadCodeAt(tree, input, sd, bld, index_num) ==
    IF ~Below(index_num, Pow2(MAX_BITS_HASH)) THEN ReadCodePanic(sd)
    ELSE IF tree.symbol_value_hash_exist[AsNat(index_num) + 1]
    THEN FastPath(tree, input, sd, bld, AsNat(index_num))
    ELSE SlowPath(tree, input, sd, bld, ScanClass(tree, read_bits(sd, 32), 0))

\* read_code: the symbol, the number of bits dropped and the new reader state
read_code(tree, input, sd, bld) ==
    ReadCodeAt(tree, input, sd, bld, read_bits(sd, MAX_BITS_HASH))

\* ------------------------------------------------------------------------
\* Static dictionary (initialize_huffmantree_dict) and dynamic tables
\* (parse_huffmantree)
\* ------------------------------------------------------------------------
\* the add_symbol calls of initialize_huffmantree_dict, in order:
\* <<symbol, bit length>>
DictDeclarations ==
    <<
    <<10, 3>>, <<9, 3>>, <<8, 3>>, <<12, 4>>, <<11, 4>>, <<7, 4>>, <<0, 4>>, <<224, 5>>,
    <<42, 5>>, <<41, 5>>, <<6, 5>>, <<74, 6>>, <<64, 6>>, <<44, 6>>, <<43, 6>>, <<40, 6>>,
    <<32, 6>>, <<5, 6>>, <<4, 6>>, <<73, 7>>, <<72, 7>>, <<39, 7>>, <<38, 7>>, <<37, 7>>,
    <<13, 7>>, <<3, 7>>, <<106, 8>>, <<105, 8>>, <<76, 8>>, <<75, 8>>, <<71, 8>>, <<36, 8>>,
    <<232, 9>>, <<160, 9>>, <<137, 9>>, <<136, 9>>, <<104, 9>>, <<103, 9>>, <<99, 9>>, <<96, 9>>,
    <<70, 9>>, <<35, 9>>, <<233, 10>>, <<201, 10>>, <<192, 10>>, <<169, 10>>, <<168, 10>>, <<138, 10>>,
    <<135, 10>>, <<128, 10>>, <<102, 10>>, <<101, 10>>, <<69, 10>>, <<68, 10>>, <<67, 10>>, <<45, 10>>,
    <<2, 10>>, <<1, 10>>, <<229, 11>>, <<200, 11>>, <<170, 11>>, <<165, 11>>, <<164, 11>>, <<139, 11>>,
    <<133, 11>>, <<132, 11>>, <<108, 11>>, <<107, 11>>, <<100, 11>>, <<77, 11>>, <<14, 11>>, <<231, 12>>,
    <<202, 12>>, <<199, 12>>, <<167, 12>>, <<166, 12>>, <<134, 12>>, <<131, 12>>, <<230, 13>>, <<228, 13>>,
    <<196, 13>>, <<140, 13>>, <<46, 13>>, <<34, 13>>, <<236, 14>>, <<198, 14>>, <<109, 14>>, <<78, 14>>,
    <<234, 15>>, <<204, 15>>, <<172, 15>>, <<171, 15>>, <<141, 15>>, <<17, 15>>, <<16, 15>>, <<15, 15>>,
    <<255, 16>>, <<254, 16>>, <<253, 16>>, <<252, 16>>, <<251, 16>>, <<250, 16>>, <<249, 16>>, <<248, 16>>,
    <<247, 16>>, <<246, 16>>, <<245, 16>>, <<244, 16>>, <<243, 16>>, <<242, 16>>, <<241, 16>>, <<240, 16>>,
    <<239, 16>>, <<238, 16>>, <<237, 16>>, <<235, 16>>, <<227, 16>>, <<226, 16>>, <<225, 16>>, <<223, 16>>,
    <<222, 16>>, <<221, 16>>, <<220, 16>>, <<219, 16>>, <<218, 16>>, <<217, 16>>, <<216, 16>>, <<215, 16>>,
    <<214, 16>>, <<213, 16>>, <<212, 16>>, <<211, 16>>, <<210, 16>>, <<209, 16>>, <<208, 16>>, <<207, 16>>,
    <<206, 16>>, <<205, 16>>, <<203, 16>>, <<197, 16>>, <<195, 16>>, <<194, 16>>, <<193, 16>>, <<191, 16>>,
    <<190, 16>>, <<189, 16>>, <<188, 16>>, <<187, 16>>, <<186, 16>>, <<185, 16>>, <<184, 16>>, <<183, 16>>,
    <<182, 16>>, <<181, 16>>, <<180, 16>>, <<179, 16>>, <<178, 16>>, <<177, 16>>, <<176, 16>>, <<175, 16>>,
    <<174, 16>>, <<173, 16>>, <<163, 16>>, <<162, 16>>, <<161, 16>>, <<159, 16>>, <<158, 16>>, <<157, 16>>,
    <<156, 16>>, <<155, 16>>, <<154, 16>>, <<153, 16>>, <<152, 16>>, <<151, 16>>, <<150, 16>>, <<149, 16>>,
    <<148, 16>>, <<147, 16>>, <<146, 16>>, <<145, 16>>, <<144, 16>>, <<143, 16>>, <<142, 16>>, <<130, 16>>,
    <<129, 16>>, <<127, 16>>, <<126, 16>>, <<125, 16>>, <<124, 16>>, <<123, 16>>, <<122, 16>>, <<121, 16>>,
    <<120, 16>>, <<119, 16>>, <<118, 16>>, <<117, 16>>, <<116, 16>>, <<115, 16>>, <<114, 16>>, <<113, 16>>,
    <<112, 16>>, <<111, 16>>, <<110, 16>>, <<98, 16>>, <<97, 16>>, <<95, 16>>, <<94, 16>>, <<93, 16>>,
    <<92, 16>>, <<91, 16>>, <<90, 16>>, <<89, 16>>, <<88, 16>>, <<87, 16>>, <<86, 16>>, <<85, 16>>,
    <<84, 16>>, <<83, 16>>, <<82, 16>>, <<81, 16>>, <<80, 16>>, <<79, 16>>, <<66, 16>>, <<65, 16>>,
    <<63, 16>>, <<62, 16>>, <<61, 16>>, <<60, 16>>, <<59, 16>>, <<58, 16>>, <<57, 16>>, <<56, 16>>,
    <<55, 16>>, <<54, 16>>, <<53, 16>>, <<52, 16>>, <<51, 16>>, <<50, 16>>, <<49, 16>>, <<48, 16>>,
    <<47, 16>>, <<33, 16>>, <<31, 16>>, <<30, 16>>, <<29, 16>>, <<28, 16>>, <<27, 16>>, <<26, 16>>,
    <<25, 16>>, <<24, 16>>, <<23, 16>>, <<22, 16>>, <<21, 16>>, <<20, 16>>, <<19, 16>>, <<18, 16>> >>

\* add_symbol for the declarations i..j of a list, in order
RECURSIVE AddAll(_, _, _, _)
AddAll(hb, decls, i, j) ==
    IF i > j THEN [builder |-> hb, panic |-> FALSE]
    ELSE IF i = j THEN add_symbol(hb, decls[i][1], decls[i][2])
    ELSE LET mid == (i + j) \div 2
             a == AddAll(hb, decls, i, mid)
         IN  IF a.panic THEN a ELSE AddAll(a.builder, decls, mid + 1, j)

\* the static table built without the first add_symbol call
InitializeDictFromSecond ==
    build_huffmantree(HuffmanTree,
                      AddAll(HuffmanTreeBuilder, DictDeclarations, 2,
                             Len(DictDeclarations)).builder)

\* initialize_huffmantree_dict: the table built from the static declarations
initialize_huffmantree_dict ==
    build_huffmantree(HuffmanTree,
                      AddAll(HuffmanTreeBuilder, DictDeclarations, 1,
                             Len(DictDeclarations)).builder)

\* the static table without its 160 declarations of 16 bits
DictOfShortCodes ==
    build_huffmantree(HuffmanTree,
                      AddAll(HuffmanTreeBuilder, DictDeclarations, 1, 96).builder).tree

dat_file_huffmantree_dict == initialize_huffmantree_dict.tree

\* i16 and u16 views of a 16-bit value
AsI16(v) == IF v % 65536 >= 32768 THEN (v % 65536) - 65536 ELSE v % 65536
AsU16(v) == (v + 65536) % 65536

\* the inner while of parse_huffmantree: temp_code_number_symbol declarations
RECURSIVE DeclareRun(_, _, _, _)
DeclareRun(hb, remaining_symbol, temp_code_number_bits, temp_code_number_symbol) ==
    IF temp_code_number_symbol = 0
    THEN [state |-> 0, builder |-> hb, remaining_symbol |-> remaining_symbol,
          panic |-> FALSE]
    ELSE IF add_symbol(hb, AsU16(remaining_symbol), temp_code_number_bits).panic
    THEN [state |-> 0, builder |-> hb, remaining_symbol |-> remaining_symbol,
          panic |-> TRUE]
    ELSE DeclareRun(add_symbol(hb, AsU16(remaining_symbol),
                               temp_code_number_bits).builder,
                    AsI16(remaining_symbol - 1),
                    temp_code_number_bits, temp_code_number_symbol - 1)

\* one pass of the outer while of parse_huffmantree, after its read_code
ParseApply(acc, c) ==
    IF c.panic THEN [acc EXCEPT !.panic = TRUE]
    ELSE IF c.symbol_data % 32 = 0
    THEN [acc EXCEPT
             !.state = c.state,
             !.remaining_symbol = AsI16(@ - ((c.symbol_data \div 32) + 1))]
    ELSE [DeclareRun(acc.builder, acc.remaining_symbol, c.symbol_data % 32,
                     (c.symbol_data \div 32) + 1)
             EXCEPT !.state = c.state]

\* one pass of the outer while of parse_huffmantree (remaining_symbol >= 0)
ParseStep(input, bld, acc) ==
    ParseApply(acc, read_code(dat_file_huffmantree_dict, input, acc.state, bld))

\* the outer while of parse_huffmantree; fuel bounds the passes left
RECURSIVE ParseLoop(_, _, _, _)
ParseLoop(input, bld, acc, fuel) ==
    IF acc.panic \/ acc.remaining_symbol < 0 THEN acc
    ELSE IF fuel = 1 THEN ParseStep(input, bld, acc)
    ELSE ParseLoop(input, bld, ParseLoop(input, bld, acc, fuel \div 2),
                   fuel - fuel \div 2)

\* the loop from the table header on: every pass lowers remaining_symbol by
\* at least one, so remaining_symbol + 1 passes end it
ParseFrom(input, bld, sd, remaining_symbol) ==
    ParseLoop(input, bld,
              [state |-> sd, builder |-> HuffmanTreeBuilder,
               remaining_symbol |-> remaining_symbol, panic |-> FALSE],
              remaining_symbol + 1)

\* the end of parse_huffmantree: the table of the parsed declarations
ParseResult(p, b) ==
    [state |-> p.state, ok |-> ~p.panic /\ b.ok, tree |-> b.tree,
     panic |-> p.panic \/ b.panic, builder |-> p.builder]

ParseBuild(prev, p) ==
    ParseResult(p, IF p.panic THEN [ok |-> FALSE, tree |-> prev, panic |-> TRUE]
                   ELSE build_huffmantree(prev, p.builder))

\* parse_huffmantree: ok is the returned bool, tree the table left in
\* huffmantree_data, state the reader after the table header
parse_huffmantree(input, sd, bld, prev) ==
    ParseBuild(prev,
               ParseFrom(input, bld, drop_bits(input, sd, 16),
                         AsI16(Lo16(read_bits(sd, 16)) + 65535)))

\* ------------------------------------------------------------------------
\* Token decoding (the body of the inner while of inflate_data)
\* ------------------------------------------------------------------------
\* the extra bits of a length or offset code: value |= read_bits(n); drop_bits(n)
ExtraBits(input, sd, bld, value, add_bits) ==
    IF ShiftPanics(bld, add_bits)
    THEN [state |-> sd, value |-> value, panic |-> TRUE]
    ELSE [state |-> drop_bits(input, sd, add_bits),
          value |-> Or32(value, read_bits(sd, add_bits)), panic |-> FALSE]

\* write_size before the addend, from symbol_data - 0x100
WriteSizeBase(symbol_data) ==
    LET temp_code_div4_quot == symbol_data \div 4
        temp_code_div4_rem == symbol_data % 4
    IN  IF temp_code_div4_quot = 0 THEN symbol_data
        ELSE IF temp_code_div4_quot < 7
        THEN Pow2(temp_code_div4_quot - 1) * (4 + temp_code_div4_rem)
        ELSE IF symbol_data = 28 THEN 255
        ELSE 0

\* write_offset before the + 1, from the copy symbol
WriteOffsetBase(symbol_data) ==
    LET temp_code_div2_quot == symbol_data \div 2
        temp_code_div2_rem == symbol_data % 2
    IN  IF temp_code_div2_quot = 0 THEN symbol_data
        ELSE IF temp_code_div2_quot < 17
        THEN Pow2(temp_code_div2_quot - 1) * (2 + temp_code_div2_rem)
        ELSE 0

\* write_size: the length symbol, its extra bits and the constant addend
DecodeWriteSize(input, sd, bld, symbol_data, addend) ==
    LET e == IF symbol_data \div 4 > 1 /\ symbol_data # 28
             THEN ExtraBits(input, sd, bld, ToU32(WriteSizeBase(symbol_data)),
                            Wrap8((symbol_data \div 4) - 1))
             ELSE [state |-> sd, value |-> ToU32(WriteSizeBase(symbol_data)),
                   panic |-> FALSE]
    IN  [state |-> e.state, value |-> Add32(e.value, ToU32(addend)),
         panic |-> e.panic, symbol_data |-> symbol_data]

\* write_offset: the copy symbol, its extra bits and the + 1
DecodeWriteOffset(input, sd, bld, symbol_data) ==
    LET e == IF symbol_data \div 2 > 1
             THEN ExtraBits(input, sd, bld, ToU32(WriteOffsetBase(symbol_data)),
                            Wrap8((symbol_data \div 2) - 1))
             ELSE [state |-> sd, value |-> ToU32(WriteOffsetBase(symbol_data)),
                   panic |-> FALSE]
    IN  [state |-> e.state, value |-> Add32(e.value, One32), panic |-> e.panic,
         symbol_data |-> symbol_data]

\* the bits dropped so far: buffer_position_bit counts 32 for every word
\* pulled (pull_byte) and bits_number for every drop (drop_bits)
Dropped(sd) == sd.buffer_position_bit - 8 * sd.position

\* the source index position - write_offset of one copied byte:
\* -1 when the subtraction panics (debug) or the wrapped index is out of range
CopySource(bld, position, write_offset, size) ==
    IF Fits31(write_offset) /\ AsNat(write_offset) <= position
    THEN position - AsNat(write_offset)
    ELSE IF bld = "debug" THEN -1
    ELSE LET wrapped == Sub32(ToU32(position), write_offset)
         IN  IF Below(wrapped, size) THEN AsNat(wrapped) ELSE -1

\* one pass of a copy loop that stores into the source index
CopyStepIntoSource(bld, acc, write_offset) ==
    LET src == CopySource(bld, acc.output_position, write_offset,
                          Len(acc.output_data))
    IN  IF src < 0 THEN [acc EXCEPT !.panic = TRUE]
        ELSE [acc EXCEPT
                 !.output_data[src + 1] = acc.output_data[acc.output_position + 1],
                 !.output_position = @ + 1,
                 !.already_written = @ + 1]

\* one pass of the copy loop: output_data[position] = output_data[position - offset]
CopyStep(bld, acc, write_offset) ==
    LET src == CopySource(bld, acc.output_position, write_offset,
                          Len(acc.output_data))
    IN  IF src < 0 THEN [acc EXCEPT !.panic = TRUE]
        ELSE [acc EXCEPT
                 !.output_data[acc.output_position + 1] = acc.output_data[src + 1],
                 !.output_position = @ + 1,
                 !.already_written = @ + 1]

\* the copy as a block move: every byte taken from the output as it was
\* before the copy began
CopyBlock(bld, acc, write_size, write_offset, fuel) ==
    IF ~(0 < write_size /\ acc.output_position < Len(acc.output_data)) THEN acc
    ELSE IF CopySource(bld, acc.output_position, write_offset,
                       Len(acc.output_data)) < 0
    THEN [acc EXCEPT !.panic = TRUE]
    ELSE LET n == IF write_size < Len(acc.output_data) - acc.output_position
                  THEN write_size
                  ELSE Len(acc.output_data) - acc.output_position
         IN  [output_data |->
                  [i \in 1..Len(acc.output_data) |->
                      IF i > acc.output_position /\ i <= acc.output_position + n
                      THEN acc.output_data[i - AsNat(write_offset)]
                      ELSE acc.output_data[i]] \o << >>,
              output_position |-> acc.output_position + n,
              already_written |-> n, panic |-> FALSE]

\* the copy loop: byte by byte, while already_written < write_size and the
\* output is not full
RECURSIVE CopyLoop(_, _, _, _, _)
CopyLoop(bld, acc, write_size, write_offset, fuel) ==
    IF acc.panic \/ ~(acc.already_written < write_size
                      /\ acc.output_position < Len(acc.output_data))
    THEN acc
    ELSE IF fuel = 1 THEN CopyStep(bld, acc, write_offset)
    ELSE CopyLoop(bld, CopyLoop(bld, acc, write_size, write_offset, fuel \div 2),
                  write_size, write_offset, fuel - fuel \div 2)

\* a u32 as a loop bound: values of 2^31 and more exceed every output size
LoopBound(x) == IF Fits31(x) THEN AsNat(x) ELSE 2147483647

NoToken ==
    [kind |-> "none", position |-> 0, write_size |-> Zero32, write_offset |-> Zero32,
     symbol_data |-> 0, copy_symbol |-> 0]

\* a token that panicked before it wrote
TokenPanicked(sd, out, position) ==
    [state |-> sd, output_data |-> out, output_position |-> position,
     panic |-> TRUE, token |-> NoToken]

\* lines 342-348: the copy, once write_size and write_offset are known; the
\* token keeps both as the u32 values of lines 314 and 340, and the length
\* symbol and the copy symbol it was decoded from
CopyResult(sd, position, ws, wo, cp) ==
    [state |-> sd, output_data |-> cp.output_data,
     output_position |-> cp.output_position, panic |-> cp.panic,
     token |-> [kind |-> "copy", position |-> position,
                write_size |-> ws.value,
                write_offset |-> wo.value,
                symbol_data |-> ws.symbol_data + 256,
                copy_symbol |-> wo.symbol_data]]

CopyToken(bld, out, position, ws, wo) ==
    IF wo.panic THEN TokenPanicked(wo.state, out, position)
    ELSE CopyResult(wo.state, position, ws, wo,
                    CopyLoop(bld,
                             [output_data |-> out, output_position |-> position,
                              already_written |-> 0, panic |-> FALSE],
                             LoopBound(ws.value), wo.value, Len(out) - position))

\* lines 316-340: the copy symbol and the offset
OffsetToken(input, bld, out, position, ws, c2) ==
    IF c2.panic THEN TokenPanicked(c2.state, out, position)
    ELSE CopyToken(bld, out, position, ws,
                   DecodeWriteOffset(input, c2.state, bld, c2.symbol_data))

\* lines 287-314: a length symbol was read
LengthToken(input, bld, hc, out, position, ws) ==
    IF ws.panic THEN TokenPanicked(ws.state, out, position)
    ELSE OffsetToken(input, bld, out, position, ws,
                     read_code(hc, input, ws.state, bld))

\* lines 279-286: a literal, or the start of a copy
SymbolToken(input, bld, hc, out, position, addend, c) ==
    IF c.panic THEN TokenPanicked(c.state, out, position)
    ELSE IF c.symbol_data < 256
    THEN [state |-> c.state,
          output_data |-> [out EXCEPT ![position + 1] = c.symbol_data],
          output_position |-> position + 1, panic |-> FALSE,
          token |-> [kind |-> "literal", position |-> position,
                     write_size |-> One32, write_offset |-> Zero32,
                     symbol_data |-> c.symbol_data, copy_symbol |-> 0]]
    ELSE LengthToken(input, bld, hc, out, position,
                     DecodeWriteSize(input, c.state, bld, c.symbol_data - 256,
                                     addend))

\* one iteration of the inner while: a literal or a copy
DecodeToken(input, sd, bld, hs, hc, out, position, addend) ==
    SymbolToken(input, bld, hc, out, position, addend,
                read_code(hs, input, sd, bld))

\* ------------------------------------------------------------------------
\* inflate_dat_file_buffer and inflate_data as a state machine
\* ------------------------------------------------------------------------
\* a resize that only grows
ResizeGrowOnly(v, new_len) ==
    IF new_len <= Len(v) THEN v
    ELSE v \o Array(new_len - Len(v), 0)

\* Vec::resize(new_len, 0): truncate, or extend with zeros
resize(v, new_len) ==
    IF new_len <= Len(v) THEN SubSeq(v, 1, new_len)
    ELSE v \o Array(new_len - Len(v), 0)

\* lines 210-213: the first pull fills head
FirstPull(p) ==
    [p.state EXCEPT !.head_data = p.head_data,
                    !.bytes_available_data = p.bytes_available_data]

\* lines 217-219: the size word is read and dropped
ReadSize(input, sd) ==
    [output_data_size |-> read_bits(sd, 32), state |-> drop_bits(input, sd, 32)]

\* a header whose size is the first word: the drop before the read left out
ReadHeaderFirstWord(input) ==
    ReadSize(input, FirstPull(pull_byte(input, StateData(input))))

\* a header of three words: a third drop of 32 bits after the size
SkipThird(input, h) ==
    [output_data_size |-> h.output_data_size, state |-> drop_bits(input, h.state, 32)]

ReadHeaderThreeWords(input) ==
    SkipThird(input,
              ReadSize(input,
                       drop_bits(input, FirstPull(pull_byte(input, StateData(input))),
                                 32)))

\* lines 202-219: the first pull, the skipped word and the size word
ReadHeader(input) ==
    ReadSize(input,
             drop_bits(input, FirstPull(pull_byte(input, StateData(input))), 32))

\* lines 237-239: read the addend, drop 4 bits
ReadAddendAt(input, sd) ==
    [write_size_const_addition |-> AsNat(read_bits(sd, 4)) + 1,
     state |-> drop_bits(input, sd, 4)]

\* a prologue of 12 bits: the addend's 4 bits consumed by the read, and a
\* second skip of 4 bits after them
ReadAddendTwelve(input, sd) ==
    [write_size_const_addition
        |-> ReadAddendAt(input, drop_bits(input, sd, 4)).write_size_const_addition,
     state |-> drop_bits(input,
                         ReadAddendAt(input, drop_bits(input, sd, 4)).state, 4)]

\* lines 236-239: drop 4 bits, read the addend, drop 4 bits
ReadAddend(input, sd) == ReadAddendAt(input, drop_bits(input, sd, 4))

TablesResult(outcome, sd, symbol, copy, builder, count) ==
    [outcome |-> outcome, state |-> sd, symbol |-> symbol, copy |-> copy,
     builder |-> builder, max_count |-> count]

\* lines 268-271: max_count = (read_bits(4) + 1) << 12, drop 4 bits
SecondTable(input, t1, t2) ==
    IF t2.panic \/ ~t2.ok
    THEN TablesResult(IF t2.panic THEN "panic" ELSE "fail", t2.state, t1.tree,
                      t2.tree, t2.builder, 0)
    ELSE TablesResult("ok", drop_bits(input, t2.state, 4), t1.tree, t2.tree,
                      t2.builder,
                      LoopBound(Shl(Add32(read_bits(t2.state, 4), One32), 12)))

\* lines 256-261: the copy table, parsed only when the symbol table parsed
FirstTable(input, bld, copy, t1) ==
    IF t1.panic \/ ~t1.ok
    THEN TablesResult(IF t1.panic THEN "panic" ELSE "fail", t1.state, t1.tree,
                      copy, t1.builder, 0)
    ELSE SecondTable(input, t1, parse_huffmantree(input, t1.state, bld, copy))

\* lines 251-271: both tables of a block, then max_count
ParseTables(input, sd, bld, symbol, copy) ==
    FirstTable(input, bld, copy, parse_huffmantree(input, sd, bld, symbol))

\* the state after the header: the size and both receivers resized
HeaderApply(h) ==
    /\ state_data' = h.state
    /\ output_data_size' = AsNat(h.output_data_size)
    /\ output_data' = resize(output_data, AsNat(h.output_data_size))
    /\ output_twin' = resize(output_twin, AsNat(h.output_data_size))

Header ==
    /\ pc = "start"
    /\ HeaderApply(ReadHeader(input_data))
    /\ pc' = "inflate"
    /\ UNCHANGED <<input_data, build, output_position, write_size_const_addition,
                   huffmantree_symbol, huffmantree_copy, huffmantree_builder,
                   max_count, current_code_read_count, token, declarations, decoded>>

PrologueApply(a) ==
    /\ state_data' = a.state
    /\ write_size_const_addition' = a.write_size_const_addition

Prologue ==
    /\ pc = "inflate"
    /\ PrologueApply(ReadAddend(input_data, state_data))
    /\ output_position' = 0
    /\ pc' = "block"
    /\ UNCHANGED <<input_data, build, output_data_size, output_data, output_twin,
                   huffmantree_symbol, huffmantree_copy, huffmantree_builder,
                   max_count, current_code_read_count, token, declarations, decoded>>

\* the outer while ends: the output is full
BlockExit ==
    /\ pc = "block"
    /\ ~(output_position < output_data_size)
    /\ pc' = "done"
    /\ UNCHANGED <<input_data, build, state_data, output_data_size, output_data,
                   output_twin, output_position, write_size_const_addition,
                   huffmantree_symbol, huffmantree_copy, huffmantree_builder,
                   max_count, current_code_read_count, token, declarations, decoded>>

TablesApply(t, outcome) ==
    /\ t.outcome = outcome
    /\ state_data' = t.state
    /\ huffmantree_symbol' = t.symbol
    /\ huffmantree_copy' = t.copy
    /\ huffmantree_builder' = t.builder
    /\ max_count' = t.max_count

\* a block begins: both tables parse
BlockTables(outcome, next) ==
    /\ pc = "block"
    /\ output_position < output_data_size
    /\ TablesApply(ParseTables(input_data, state_data, build, huffmantree_symbol,
                               huffmantree_copy), outcome)
    /\ current_code_read_count' = 0
    /\ pc' = next
    /\ UNCHANGED <<input_data, build, output_data_size, output_data, output_twin,
                   output_position, write_size_const_addition, token, declarations,
                   decoded>>

\* a failed table parse that starts the call over instead of ending it
BlockAbandonRestart == BlockTables("fail", "start")

BlockStart == BlockTables("ok", "token")
\* "Failed to parse huffmantree.": break, and the call returns Ok
BlockAbandon == BlockTables("fail", "done")
\* an index out of range while parsing or building a table
BlockPanic == BlockTables("panic", "abort")

TokenApply(d, d2, kind) ==
    /\ (IF d.panic THEN "panic" ELSE d.token.kind) = kind
    /\ state_data' = d.state
    /\ output_data' = d.output_data
    /\ output_twin' = d2.output_data
    /\ output_position' = d.output_position
    /\ token' = d.token

\* one iteration of the inner while
TokenStep(kind, next) ==
    /\ pc = "token"
    /\ current_code_read_count < max_count
    /\ output_position < output_data_size
    /\ TokenApply(DecodeToken(input_data, state_data, build, huffmantree_symbol,
                              huffmantree_copy, output_data, output_position,
                              write_size_const_addition),
                  DecodeToken(input_data, state_data, build, huffmantree_symbol,
                              huffmantree_copy, output_twin, output_position,
                              write_size_const_addition), kind)
    /\ current_code_read_count' = current_code_read_count + 1
    /\ pc' = next
    /\ UNCHANGED <<input_data, build, output_data_size, write_size_const_addition,
                   huffmantree_symbol, huffmantree_copy, huffmantree_builder,
                   max_count, declarations, decoded>>

TokenLiteral == TokenStep("literal", "token")
TokenCopy == TokenStep("copy", "token")
TokenPanic == TokenStep("panic", "abort")

\* the inner while ends: token cap reached or output full
TokensEnd ==
    /\ pc = "token"
    /\ ~(current_code_read_count < max_count /\ output_position < output_data_size)
    /\ pc' = "block"
    /\ UNCHANGED <<input_data, build, state_data, output_data_size, output_data,
                   output_twin, output_position, write_size_const_addition,
                   huffmantree_symbol, huffmantree_copy, huffmantree_builder,
                   max_count, current_code_read_count, token, declarations, decoded>>

\* ------------------------------------------------------------------------
\* The calls explored
\* ------------------------------------------------------------------------
\* Compressed streams, each followed by one zero word.  The comment of a
\* stream names the tables and tokens it encodes; the tables are written with
\* the static dictionary's codes.
Streams == <<
    \* two literals 0x48 0x69, size 2
    <<
       5, 0, 0, 0, 2, 0, 0, 0, 6, 106, 0, 0, 27, 32, 132, 144,
       33, 132, 16, 66, 160, 129, 3, 8, 32, 108, 16, 0, 0, 0, 0, 0 >>,
    \* literal 0x41, copy L=2 D=1, size 3
    <<
       0, 0, 0, 0, 3, 0, 0, 0, 6, 2, 1, 0, 8, 33, 132, 208,
       33, 132, 16, 66, 132, 16, 66, 8, 28, 64, 8, 33, 66, 8, 161, 13,
       0, 72, 132, 16, 0, 20, 54, 8, 0, 0, 0, 0 >>,
    \* literals 1 2, copy L=5 D=2 (run extension), size 7
    <<
       0, 0, 0, 0, 7, 0, 0, 0, 6, 3, 1, 2, 8, 33, 132, 208,
       33, 132, 16, 66, 132, 16, 66, 8, 16, 66, 8, 33, 64, 8, 33, 132,
       0, 217, 1, 28, 4, 145, 0, 2, 0, 0, 0, 128, 0, 0, 0, 0 >>,
    \* literals 5 6 7 8 9, copy s=264 (q=2, extra 1 bit) t=4 (q=2, extra 1 bit), size 12
    <<
       0, 0, 0, 0, 12, 0, 0, 0, 6, 9, 1, 1, 8, 33, 132, 208,
       33, 132, 16, 66, 132, 16, 66, 8, 16, 66, 8, 33, 64, 8, 33, 132,
       48, 65, 5, 60, 144, 108, 80, 0, 224, 35, 26, 108, 0, 0, 0, 0 >>,
    \* copy L=2 D=1 as first token, size 3
    <<
       0, 0, 0, 0, 3, 0, 0, 0, 6, 2, 1, 0, 8, 33, 132, 208,
       33, 132, 16, 66, 132, 16, 66, 8, 28, 64, 8, 33, 66, 8, 161, 13,
       0, 72, 132, 16, 0, 12, 54, 8, 0, 0, 0, 0 >>,
    \* literals 1 2, copy D=3 at position 2, size 6
    <<
       0, 0, 0, 0, 6, 0, 0, 0, 6, 2, 1, 0, 8, 33, 132, 208,
       33, 132, 16, 66, 132, 16, 66, 8, 16, 66, 8, 33, 64, 8, 33, 132,
       0, 178, 3, 60, 54, 200, 13, 6, 0, 0, 0, 9, 0, 0, 0, 0 >>,
    \* incomplete symbol table, token bits 00 match no code, size 2
    <<
       0, 0, 0, 0, 2, 0, 0, 0, 0, 68, 0, 0, 132, 16, 66, 126,
       0, 144, 8, 33, 0, 48, 108, 16, 0, 0, 0, 0 >>,
    \* literal 0, copy s=284 L=257 D=1, size 258
    <<
       0, 0, 0, 0, 2, 1, 0, 0, 6, 29, 1, 1, 8, 33, 132, 208,
       33, 132, 16, 66, 132, 16, 66, 8, 16, 66, 8, 33, 66, 8, 33, 132,
       13, 18, 132, 16, 97, 131, 0, 128, 0, 0, 0, 64, 0, 0, 0, 0 >>,
    \* literals through 9-bit codes, size 2
    <<
       0, 0, 0, 0, 2, 0, 0, 0, 82, 34, 0, 0, 8, 109, 224, 0,
       193, 6, 1, 0, 0, 0, 254, 254, 0, 0, 0, 0 >>,
    \* oversubscribed symbol table (three 1-bit codes, one 2-bit code), size 2
    <<
       0, 0, 0, 0, 2, 0, 0, 0, 6, 4, 0, 0, 0, 192, 31, 128,
       0, 128, 176, 65, 0, 0, 0, 0 >>,
    \* symbol count 300, two symbols of 3 bits declared first, size 2
    <<
       0, 0, 0, 0, 2, 0, 0, 0, 11, 44, 1, 0, 0, 0, 0, 128,
       0, 0, 0, 0 >>,
    \* literals 1 2, copy s=257 t=34 (q=17, 16 extra bits = 1), size 4
    <<
       0, 0, 0, 0, 4, 0, 0, 0, 6, 2, 1, 0, 8, 33, 132, 208,
       33, 132, 16, 66, 132, 16, 66, 8, 16, 66, 8, 33, 64, 8, 33, 132,
       0, 178, 3, 60, 8, 161, 13, 70, 144, 96, 131, 68, 0, 0, 8, 0,
       0, 0, 0, 0 >>,
    \* literals 1 2, copy s=257 t=68 (q=34, 33 extra bits), size 4
    <<
       0, 0, 0, 0, 4, 0, 0, 0, 6, 2, 1, 0, 8, 33, 132, 208,
       33, 132, 16, 66, 132, 16, 66, 8, 16, 66, 8, 33, 64, 8, 33, 132,
       0, 178, 3, 60, 8, 161, 13, 138, 18, 132, 16, 66, 0, 64, 130, 13,
       0, 0, 0, 0, 0, 0, 0, 0 >>,
    \* symbol table of 0x41, copy table of 3 symbols none declared, size 2
    <<
       0, 0, 0, 0, 2, 0, 0, 0, 6, 66, 0, 0, 8, 33, 132, 208,
       12, 0, 36, 66, 0, 0, 0, 144, 0, 0, 0, 0 >>,
    \* symbol count 2, one 3-bit dictionary code, then five 1 bits, size 2
    <<
       0, 0, 0, 0, 2, 0, 0, 0, 255, 2, 0, 0, 0, 0, 0, 0 >>,
    \* 12 literals, then length symbol 272 (3 extra bits) whose last
    \* extra bit lies past the 48th byte, size 52
    <<
       0, 0, 0, 0, 52, 0, 0, 0, 90, 17, 1, 0, 8, 33, 132, 16,
       33, 132, 16, 66, 132, 16, 66, 8, 16, 66, 8, 33, 66, 8, 33, 132,
       240, 120, 156, 5, 0, 144, 27, 104, 73, 16, 9, 32, 6, 73, 73, 73,
       0, 0, 0, 0 >>,
    \* 14 literals, then length symbol 257 and copy symbol 6 (2 extra bits)
    \* whose last extra bit lies past the 48th byte, size 16
    <<
       0, 0, 0, 0, 16, 0, 0, 0, 30, 2, 1, 0, 66, 8, 33, 132,
       8, 33, 132, 16, 33, 132, 16, 66, 132, 16, 66, 8, 1, 66, 8, 33,
       55, 208, 224, 49, 9, 240, 0, 32, 74, 74, 96, 131, 127, 72, 74, 74,
       0, 0, 0, 0 >>,
    \* symbol count 2, then the dictionary code of a run of 3 symbols of
    \* 1 bit, size 2
    <<
       0, 0, 0, 0, 2, 0, 0, 0, 0, 2, 0, 0, 0, 0, 0, 127,
       0, 0, 0, 0, 0, 0, 0, 0 >> >>

\* the longest prior content of an output receiver, and its fill byte
MaxPrior == 2
PriorByte == 238

Priors == { Array(n, PriorByte) : n \in 0..MaxPrior }

\* a stream of two blocks, size 4102, addend 3: the symbol table of the first
\* block gives literal 1 the code 0 and its max_count is 4096, so the 4096
\* zero bits after its tables are 4096 literals; the second block declares
\* literal 2 and length symbol 258 and holds the literal and one copy token
TwoBlocks ==
    << 0, 0, 0, 0, 6, 16, 0, 0, 0, 2, 0, 2, 6, 1, 0, 145, 0, 0, 0, 192 >>
    \o Array(508, 0)
    \o << 27, 12, 4, 0, 33, 132, 16, 66, 132, 16, 66, 8, 16, 66, 8, 33,
          66, 8, 33, 132, 0, 33, 132, 16, 0, 104, 54, 112, 0, 20, 54, 8 >>

\* every prefix of every stream: the whole stream and all its truncations
Inputs == UNION { { SubSeq(Streams[k], 1, n) : n \in 0..Len(Streams[k]) } :
                  k \in 1..Len(Streams) }

Init ==
    /\ input_data \in Inputs
    /\ build \in {"debug", "release"}
    /\ state_data = StateData(input_data)
    /\ output_data_size = 0
    /\ output_data \in Priors
    /\ output_twin = << >>
    /\ output_position = 0
    /\ write_size_const_addition = 0
    /\ huffmantree_symbol = HuffmanTree
    /\ huffmantree_copy = HuffmanTree
    /\ huffmantree_builder = HuffmanTreeBuilder
    /\ max_count = 0
    /\ current_code_read_count = 0
    /\ token = NoToken
    /\ declarations = << >>
    /\ decoded = << >>
    /\ pc = "start"

Next ==
    \/ Header
    \/ Prologue
    \/ BlockStart
    \/ BlockAbandon
    \/ BlockPanic
    \/ BlockExit
    \/ TokenLiteral
    \/ TokenCopy
    \/ TokenPanic
    \/ TokensEnd

Spec == Init /\ [][Next]_vars

\* ------------------------------------------------------------------------
\* inflate_data block by block: the inner while as one step
\* ------------------------------------------------------------------------
\* one iteration of the inner while on the loop's variables
TokenLoopStep(acc, d) ==
    [state |-> d.state, output_data |-> d.output_data,
     output_position |-> d.output_position, panic |-> d.panic,
     token |-> d.token, current_code_read_count |-> acc.current_code_read_count + 1]

\* lines 273-349: the inner while; fuel bounds the iterations left
RECURSIVE TokenLoop(_, _, _, _, _, _)
TokenLoop(input, bld, addend, size, acc, fuel) ==
    IF \/ acc.panic
       \/ ~(/\ acc.current_code_read_count < max_count
            /\ acc.output_position < size)
    THEN acc
    ELSE IF fuel = 1
    THEN TokenLoopStep(acc,
                       DecodeToken(input, acc.state, bld, huffmantree_symbol,
                                   huffmantree_copy, acc.output_data,
                                   acc.output_position, addend))
    ELSE TokenLoop(input, bld, addend, size,
                   TokenLoop(input, bld, addend, size, acc, fuel \div 2),
                   fuel - fuel \div 2)

\* the inner while from the first token of a block: every iteration writes at
\* least one byte or panics, so size - output_position iterations end it
BlockTokensFrom(out) ==
    TokenLoop(input_data, build, write_size_const_addition, output_data_size,
              [state |-> state_data, output_data |-> out,
               output_position |-> output_position, panic |-> FALSE,
               token |-> token, current_code_read_count |-> current_code_read_count],
              output_data_size - output_position)

BlockTokensApply(r, r2, panic) ==
    /\ r.panic = panic
    /\ state_data' = r.state
    /\ output_data' = r.output_data
    /\ output_twin' = r2.output_data
    /\ output_position' = r.output_position
    /\ token' = r.token
    /\ current_code_read_count' = r.current_code_read_count

\* all the tokens of a block
BlockTokensStep(panic, next) ==
    /\ pc = "token"
    /\ current_code_read_count < max_count
    /\ output_position < output_data_size
    /\ BlockTokensApply(BlockTokensFrom(output_data), BlockTokensFrom(output_twin),
                        panic)
    /\ pc' = next
    /\ UNCHANGED <<input_data, build, output_data_size, write_size_const_addition,
                   huffmantree_symbol, huffmantree_copy, huffmantree_builder,
                   max_count, declarations, decoded>>

BlockTokens == BlockTokensStep(FALSE, "block")
BlockTokensPanic == BlockTokensStep(TRUE, "abort")

BlocksInit ==
    /\ input_data \in Inputs \cup { TwoBlocks }
    /\ build \in {"debug", "release"}
    /\ state_data = StateData(input_data)
    /\ output_data_size = 0
    /\ output_data \in Priors
    /\ output_twin = << >>
    /\ output_position = 0
    /\ write_size_const_addition = 0
    /\ huffmantree_symbol = HuffmanTree
    /\ huffmantree_copy = HuffmanTree
    /\ huffmantree_builder = HuffmanTreeBuilder
    /\ max_count = 0
    /\ current_code_read_count = 0
    /\ token = NoToken
    /\ declarations = << >>
    /\ decoded = << >>
    /\ pc = "start"

BlocksNext ==
    \/ Header
    \/ Prologue
    \/ BlockStart
    \/ BlockAbandon
    \/ BlockPanic
    \/ BlockExit
    \/ BlockTokens
    \/ BlockTokensPanic

SpecBlocks == BlocksInit /\ [][BlocksNext]_vars

\* the states where Header, a BlockTables outcome or a TokenStep kind can act:
\* the header is always read, a block always parses to one of three outcomes
\* and a token always decodes to one of three kinds
Decoding ==
    \/ pc = "start"
    \/ pc = "block" /\ output_position < output_data_size
    \/ pc = "token" /\ current_code_read_count < max_count
                    /\ output_position < output_data_size

\* The call runs on one thread and waits on nothing, so it keeps stepping
\* while a step is possible: weak fairness of every step.  For Prologue,
\* BlockExit and TokensEnd it is stated with WF_vars.  For the steps that
\* read the input (Header, BlockTables, TokenStep) it is stated in the
\* expanded form []<>~ENABLED \/ []<>(step), with the enabling condition
\* written as the state predicate it equals, Decoding; each such step changes
\* pc or current_code_read_count.
FairSpec ==
    /\ Spec
    /\ WF_vars(Prologue) /\ WF_vars(BlockExit) /\ WF_vars(TokensEnd)
    /\ ([]<>~Decoding \/ []<><<Next>>_vars)

\* ------------------------------------------------------------------------
\* The table exercise: add_symbol, build_huffmantree and read_code on
\* declaration lists
\* ------------------------------------------------------------------------
MaxDecl == 3
DeclSymbols == {0, 1, 2, MAX_SYMBOL_VALUE - 1}
DeclBits == {1, 2, MAX_BITS_HASH, MAX_BITS_HASH + 1, MAX_CODE_BITS_LENGTH - 1}
\* the bits that follow a code: zeros, ones, alternating
Tails == {Zero32, <<65535, 65535>>, <<43690, 21845>>}
\* the 8-bit prefixes probed
ProbePrefixes == {0, 1, 63, 64, 127, 128, 191, 192, 254, 255}

\* sum of 2^(-b) over a declaration list, in units of 2^(-31)
RECURSIVE KraftSum(_, _)
KraftSum(decls, n) ==
    IF n = 0 THEN Zero32
    ELSE Add32(KraftSum(decls, n - 1), Shl(One32, 31 - decls[n][2]))

KraftHolds(decls) == ~Lt32(<<32768, 0>>, KraftSum(decls, Len(decls)))

\* The canonical code of declaration i, by the convention of the builder's
\* counter: the counter starts at 0; at each length the last-declared symbol
\* takes the counter and every earlier one of that length one less; after a
\* length the counter becomes (counter << 1) + 1.  With n(k) symbols of
\* length k the counter at length l is therefore, modulo 2^32,
\*     c(0) = 0,  c(l) = 2 * (c(l-1) - n(l-1)) + 1
\*          = 2^l - 1 - (sum over the declarations of length k < l of 2^(l-k)).
RECURSIVE ShorterWeight(_, _, _)
ShorterWeight(decls, l, n) ==
    IF n = 0 THEN Zero32
    ELSE Add32(ShorterWeight(decls, l, n - 1),
               IF decls[n][2] < l THEN Shl(One32, l - decls[n][2]) ELSE Zero32)

CounterAt(decls, l) ==
    Sub32(Sub32(Shl(One32, l), One32), ShorterWeight(decls, l, Len(decls)))

CanonicalCode(decls, i) ==
    Sub32(CounterAt(decls, decls[i][2]),
          ToU32(Cardinality({j \in (i + 1)..Len(decls) : decls[j][2] = decls[i][2]})))

\* the code of declaration i, most significant bit first, then the tail
CodeWord(decls, i, tail) ==
    Or32(Shl(CanonicalCode(decls, i), 32 - decls[i][2]), Shr(tail, decls[i][2]))

\* a reader whose head holds the word, with all 32 bits live
Reader(word) ==
    [position |-> 0, bytes_available |-> 0, buffer_position_bit |-> 0,
     head_data |-> word, buffer_data |-> Zero32, bytes_available_data |-> 32]

Outcome(r) == [symbol_data |-> r.symbol_data, bits |-> r.bits, panic |-> r.panic]

HuffInit ==
    /\ input_data = << >>
    /\ build \in {"debug", "release"}
    /\ state_data = StateData(<< >>)
    /\ output_data_size = 0
    /\ output_data = << >>
    /\ output_twin = << >>
    /\ output_position = 0
    /\ write_size_const_addition = 0
    /\ huffmantree_symbol = HuffmanTree
    /\ huffmantree_copy = HuffmanTree
    /\ huffmantree_builder = HuffmanTreeBuilder
    /\ max_count = 0
    /\ current_code_read_count = 0
    /\ token = NoToken
    /\ declarations = << >>
    /\ decoded = << >>
    /\ pc = "declare"

AddApply(a) ==
    /\ ~a.panic
    /\ huffmantree_builder' = a.builder

\* one add_symbol call: a new symbol, the list staying within the Kraft bound
AddSymbol ==
    /\ pc = "declare"
    /\ Len(declarations) < MaxDecl
    /\ \E s \in DeclSymbols, b \in DeclBits :
          /\ \A j \in 1..Len(declarations) : declarations[j][1] # s
          /\ KraftHolds(Append(declarations, <<s, b>>))
          /\ AddApply(add_symbol(huffmantree_builder, s, b))
          /\ declarations' = Append(declarations, <<s, b>>)
    /\ UNCHANGED <<input_data, build, state_data, output_data_size, output_data,
                   output_twin, output_position, write_size_const_addition,
                   huffmantree_symbol, huffmantree_copy, max_count,
                   current_code_read_count, token, decoded, pc>>

BuildApply(b, ok, next) ==
    /\ ~b.panic
    /\ b.ok = ok
    /\ huffmantree_symbol' = b.tree
    /\ pc' = next

Build(ok, next) ==
    /\ pc = "declare"
    /\ BuildApply(build_huffmantree(huffmantree_symbol, huffmantree_builder), ok, next)
    /\ UNCHANGED <<input_data, build, state_data, output_data_size, output_data,
                   output_twin, output_position, write_size_const_addition,
                   huffmantree_copy, huffmantree_builder, max_count,
                   current_code_read_count, token, declarations, decoded>>

\* build_huffmantree returns true
BuildTable == Build(TRUE, "built")
\* build_huffmantree returns false: nothing was declared
BuildNothing == Build(FALSE, "empty")

ReadApply(r, declared) ==
    /\ state_data' = r.state
    /\ decoded' = [read |-> Outcome(r), declared |-> declared,
                   dropped |-> Dropped(r.state)]

\* read_code on the canonical code of a declared symbol, then arbitrary bits
ReadCode ==
    /\ pc = "built"
    /\ \E i \in 1..Len(declarations), tail \in Tails :
          ReadApply(read_code(huffmantree_symbol, << >>,
                              Reader(CodeWord(declarations, i, tail)), build),
                    declarations[i])
    /\ pc' = "read"
    /\ UNCHANGED <<input_data, build, output_data_size, output_data, output_twin,
                   output_position, write_size_const_addition, huffmantree_symbol,
                   huffmantree_copy, huffmantree_builder, max_count,
                   current_code_read_count, token, declarations>>

ProbeApply(sd, prefix) ==
    LET Returned(r) ==
            /\ state_data' = r.state
            /\ decoded' = [prefix |-> prefix,
                           read |-> Outcome(r),
                           fast |-> Outcome(FastPath(huffmantree_symbol, << >>, sd,
                                                     build, prefix)),
                           slow |-> Outcome(SlowPath(huffmantree_symbol, << >>, sd,
                                                     build,
                                                     ScanClass(huffmantree_symbol,
                                                               read_bits(sd, 32),
                                                               0)))]
    IN  Returned(read_code(huffmantree_symbol, << >>, sd, build))

\* both paths of read_code on a word whose top 8 bits have a hash entry
Probe ==
    /\ pc = "built"
    /\ \E h \in ProbePrefixes, tail \in Tails :
          /\ huffmantree_symbol.symbol_value_hash_exist[h + 1]
          /\ ProbeApply(Reader(Or32(<<h * 256, 0>>, Shr(tail, MAX_BITS_HASH))), h)
    /\ pc' = "probed"
    /\ UNCHANGED <<input_data, build, output_data_size, output_data, output_twin,
                   output_position, write_size_const_addition, huffmantree_symbol,
                   huffmantree_copy, huffmantree_builder, max_count,
                   current_code_read_count, token, declarations>>

\* the 3-bit patterns a word given to the static table begins with
DictPatterns == 0..7

DictApply(r, pattern) ==
    /\ state_data' = r.state
    /\ decoded' = [pattern |-> pattern, read |-> Outcome(r),
                   dropped |-> Dropped(r.state)]

\* read_code with the static dictionary's table on a word that begins with a
\* 3-bit pattern
DictRead ==
    /\ pc = "declare"
    /\ declarations = << >>
    /\ \E p \in DictPatterns, tail \in Tails :
          DictApply(read_code(dat_file_huffmantree_dict, << >>,
                              Reader(Or32(<<p * 8192, 0>>, Shr(tail, 3))), build),
                    p)
    /\ pc' = "dict"
    /\ UNCHANGED <<input_data, build, output_data_size, output_data, output_twin,
                   output_position, write_size_const_addition, huffmantree_symbol,
                   huffmantree_copy, huffmantree_builder, max_count,
                   current_code_read_count, token, declarations>>

\* the orders a declaration list is declared again in: two neighbours
\* exchanged, or the whole list reversed
Reorderings(n) ==
    { [i \in 1..n |-> IF i = k THEN k + 1 ELSE IF i = k + 1 THEN k ELSE i] :
         k \in 1..(n - 1) }
    \cup { [i \in 1..n |-> n + 1 - i] }

Reordered(decls, order) == [i \in 1..Len(decls) |-> decls[order[i]]]

RebuildApply(order, b) ==
    /\ ~b.panic
    /\ huffmantree_copy' = b.tree
    /\ decoded' = [order |-> order, ok |-> b.ok]

\* a second builder is fed the same declarations in another order of the
\* add_symbol calls, and a second table is built from it
Rebuild ==
    /\ pc = "built"
    /\ Len(declarations) >= 2
    /\ \E order \in Reorderings(Len(declarations)) :
          RebuildApply(Reordered(declarations, order),
                       build_huffmantree(HuffmanTree,
                           AddAll(HuffmanTreeBuilder,
                                  Reordered(declarations, order), 1,
                                  Len(declarations)).builder))
    /\ pc' = "rebuilt"
    /\ UNCHANGED <<input_data, build, state_data, output_data_size, output_data,
                   output_twin, output_position, write_size_const_addition,
                   huffmantree_symbol, huffmantree_builder, max_count,
                   current_code_read_count, token, declarations>>

HuffNext ==
    \/ AddSymbol
    \/ DictRead
    \/ BuildTable
    \/ BuildNothing
    \/ ReadCode
    \/ Probe
    \/ Rebuild

SpecHuff == HuffInit /\ [][HuffNext]_vars

\* read_code on any 32-bit word, whether or not its leading bits are the code
\* of a declared symbol
PeekApply(r, word) ==
    /\ state_data' = r.state
    /\ decoded' = [word |-> word, read |-> Outcome(r),
                   dropped |-> Dropped(r.state)]

PeekCode ==
    /\ pc = "built"
    /\ \E h \in ProbePrefixes, tail \in Tails :
          PeekApply(read_code(huffmantree_symbol, << >>,
                              Reader(Or32(<<h * 256, 0>>, Shr(tail, MAX_BITS_HASH))),
                              build),
                    Or32(<<h * 256, 0>>, Shr(tail, MAX_BITS_HASH)))
    /\ pc' = "peeked"
    /\ UNCHANGED <<input_data, build, output_data_size, output_data, output_twin,
                   output_position, write_size_const_addition, huffmantree_symbol,
                   huffmantree_copy, huffmantree_builder, max_count,
                   current_code_read_count, token, declarations>>

PeekNext ==
    \/ AddSymbol
    \/ BuildTable
    \/ BuildNothing
    \/ PeekCode

SpecPeek == HuffInit /\ [][PeekNext]_vars

\* ------------------------------------------------------------------------
\* Texture decoder (texture_decompress.rs): bit reader, format table,
\* inflate_texture_file_buffer and the sub-decoders of inflate_texture_data
\* ------------------------------------------------------------------------
\* StateData::default() with bytes_available and skipped_bytes set (lines 237-240)
TextureStateData(input, skipped_bytes) ==
    [buffer_position |-> 0, bytes_available |-> Len(input),
     skipped_bytes |-> skipped_bytes, head_data |-> Zero32,
     buffer_data |-> Zero32, bytes_available_data |-> 0]

\* texture pull_byte: the new reader state and the two out-parameters; s is
\* the state after the word at a multiple of skipped_bytes is passed over,
\* err the Err of read_u32 when fewer than four bytes are left after it
texture_pull_byte(input, sd) ==
    IF sd.bytes_available >= 4
    THEN LET s == IF sd.skipped_bytes # 0
                     /\ ((sd.buffer_position \div 4) + 1) % sd.skipped_bytes = 0
                  THEN [sd EXCEPT !.bytes_available = @ - 4,
                                  !.buffer_position = @ + 4]
                  ELSE sd
         IN  IF Len(input) - s.buffer_position < 4
             THEN [state |-> s, head_data |-> Zero32, bytes_available_data |-> 0,
                   err |-> TRUE]
             ELSE [state |-> [s EXCEPT !.buffer_position = @ + 4,
                                       !.bytes_available = @ - 4],
                   head_data |-> read_u32_le(input[s.buffer_position + 1],
                                             input[s.buffer_position + 2],
                                             input[s.buffer_position + 3],
                                             input[s.buffer_position + 4]),
                   bytes_available_data |-> 32, err |-> FALSE]
    ELSE [state |-> sd, head_data |-> Zero32, bytes_available_data |-> 0,
          err |-> FALSE]

\* texture read_bits: the top bits_number bits of head, also on underflow
texture_read_bits(sd, bits_number) ==
    Shr(sd.head_data, Amount(32 - bits_number))

\* texture drop_bits: the new reader state, and the Err of its pull_byte
texture_drop_bits(input, sd, bits_number) ==
    LET new_bits_available == Wrap8(sd.bytes_available_data - bits_number)
    IN  IF new_bits_available >= 32
        THEN [state |->
                  IF bits_number = 32
                  THEN [sd EXCEPT !.head_data = sd.buffer_data,
                                  !.buffer_data = Zero32,
                                  !.bytes_available_data = new_bits_available]
                  ELSE [sd EXCEPT
                           !.head_data =
                               Or32(Shl(sd.head_data, Amount(bits_number)),
                                    Shr(sd.buffer_data, Amount(32 - bits_number))),
                           !.buffer_data = Shl(sd.buffer_data, Amount(bits_number)),
                           !.bytes_available_data = new_bits_available],
              err |-> FALSE]
        ELSE LET p == texture_pull_byte(input, sd)
                 shifted == IF bits_number = 32 THEN Zero32
                            ELSE Shl(sd.head_data, Amount(bits_number))
             IN  [state |->
                      IF p.err THEN p.state
                      ELSE [p.state EXCEPT
                               !.head_data =
                                   Or32(shifted,
                                        Or32(Shr(sd.buffer_data,
                                                 Amount(32 - bits_number)),
                                             Shr(p.head_data, new_bits_available))),
                               !.buffer_data =
                                   IF new_bits_available > 0
                                   THEN Shl(p.head_data, 32 - new_bits_available)
                                   ELSE sd.buffer_data,
                               !.bytes_available_data =
                                   new_bits_available + p.bytes_available_data],
                  err |-> p.err]

\* format_data as initialize_static_values pushes it (flag_data is the OR of
\* the FormatFlags of each entry)
FormatData ==
    << [flag_data |-> 112, pixel_size_bits |-> 4],
       [flag_data |-> 176, pixel_size_bits |-> 8],
       [flag_data |-> 176, pixel_size_bits |-> 8],
       [flag_data |-> 176, pixel_size_bits |-> 8],
       [flag_data |-> 176, pixel_size_bits |-> 8],
       [flag_data |-> 160, pixel_size_bits |-> 4],
       [flag_data |-> 16, pixel_size_bits |-> 8],
       [flag_data |-> 512, pixel_size_bits |-> 8],
       [flag_data |-> 512, pixel_size_bits |-> 8] >>

\* the fourcc values deduce_format matches, in the order of its arms:
\* DXT1 DXT2 DXT3 DXT4 DXT5 DXTA DXTL DXTN 3DCX
FourCC ==
    << <<12628, 22596>>, <<12884, 22596>>, <<13140, 22596>>, <<13396, 22596>>,
       <<13652, 22596>>, <<16724, 22596>>, <<19540, 22596>>, <<20052, 22596>>,
       <<22595, 17459>> >>

\* deduce_format: Format::default() when no arm matches
deduce_format(fourcc_data) ==
    IF \E k \in 1..Len(FourCC) : FourCC[k] = fourcc_data
    THEN FormatData[CHOOSE k \in 1..Len(FourCC) : FourCC[k] = fourcc_data]
    ELSE [flag_data |-> 0, pixel_size_bits |-> 0]

\* a u32 times a small factor: the wrapped product, and whether it overflowed
MulU32(x, k) ==
    LET lo == x[2] * k
        hi == x[1] * k + lo \div 65536
    IN  [value |-> <<hi % 65536, lo % 65536>>, overflow |-> hi >= 65536]

\* a header field read as if each field were followed by padding of its width
TextureFieldPadded(input, r, bits_number) ==
    IF r.err THEN r
    ELSE LET d == texture_drop_bits(input, r.state, bits_number)
             e == IF d.err THEN d ELSE texture_drop_bits(input, d.state, bits_number)
         IN  [state |-> e.state, value |-> texture_read_bits(r.state, bits_number),
              err |-> e.err]

\* value = read_bits(n); drop_bits(n), after a step r that may have failed
TextureField(input, r, bits_number) ==
    IF r.err THEN r
    ELSE LET d == texture_drop_bits(input, r.state, bits_number)
         IN  [state |-> d.state, value |-> texture_read_bits(r.state, bits_number),
              err |-> d.err]

\* lines 256-271: FullFormat and the output size of a header
FullFormat(bld, fourcc_format, width, height) ==
    LET format == deduce_format(fourcc_format)
        pixel_blocks == ((width + 3) \div 4) * ((height + 3) \div 4)
        bytes_pixel_blocks == (format.pixel_size_bits * 4 * 4) \div 8
        size == MulU32(ToU32(pixel_blocks), bytes_pixel_blocks)
    IN  [format |-> format, pixel_blocks |-> pixel_blocks,
         bytes_pixel_blocks |-> bytes_pixel_blocks,
         bytes_component |-> bytes_pixel_blocks, two_component |-> FALSE,
         width |-> width, height |-> height, fourcc_format |-> fourcc_format,
         texture_output_size |-> size.value,
         panic |-> bld = "debug" /\ size.overflow]

\* inflate_texture_file_buffer up to output_data.resize (lines 236-278):
\* the first pull_byte fills head, drop_bits(32), then the three fields
TextureHeaderRead(input, bld) ==
    LET p == texture_pull_byte(input, TextureStateData(input, 0))
        first == [state |-> [p.state EXCEPT
                                !.head_data = p.head_data,
                                !.bytes_available_data = p.bytes_available_data],
                  value |-> Zero32, err |-> p.err]
        fourcc == TextureField(input, TextureField(input, first, 32), 32)
        width == TextureField(input, fourcc, 16)
        height == TextureField(input, width, 16)
    IN  [state |-> height.state, err |-> height.err,
         full_format_data |-> FullFormat(bld, fourcc.value, Lo16(width.value),
                                         Lo16(height.value))]

\* The table initialize_static_values leaves in texture_huffmantree_dict.
\* initialize_huffmantree_dict (lines 855-883) declares 0x01 with 1 bit, 0x12
\* with 2 bits and 0x11 down to 0x02 with 6 bits, then builds.
texture_huffmantree_dict ==
    LET declared == << <<1, 1>>, <<18, 2>>,
                       <<17, 6>>, <<16, 6>>, <<15, 6>>, <<14, 6>>, <<13, 6>>,
                       <<12, 6>>, <<11, 6>>, <<10, 6>>, <<9, 6>>, <<8, 6>>,
                       <<7, 6>>, <<6, 6>>, <<5, 6>>, <<4, 6>>, <<3, 6>>,
                       <<2, 6>> >>
    IN  build_huffmantree(HuffmanTree,
                          AddAll(HuffmanTreeBuilder, declared, 1,
                                 Len(declared)).builder).tree

\* the tail of both paths of the texture read_code: drop_bits(bits).  A drop
\* of 0 bits shifts buffer by 32: a debug build panics, at once when 32 bits
\* or more are live, after the pull_byte of drop_bits otherwise.
TextureReadCodeDrop(input, sd, bld, symbol_data, bits) ==
    LET AfterPull(p) ==
            [state |-> p.state, symbol_data |-> 0, err |-> p.err, panic |-> ~p.err]
        AfterDrop(d) ==
            [state |-> d.state, symbol_data |-> symbol_data, err |-> d.err,
             panic |-> FALSE]
    IN  IF ShiftPanics(bld, bits)
        THEN IF sd.bytes_available_data >= 32
             THEN [state |-> sd, symbol_data |-> 0, err |-> FALSE, panic |-> TRUE]
             ELSE AfterPull(texture_pull_byte(input, sd))
        ELSE AfterDrop(texture_drop_bits(input, sd, bits))

\* the slow path of the texture read_code once the scan has stopped
TextureSlowPath(tree, input, sd, bld, index_data) ==
    LET Found(symbol_index) ==
            IF symbol_index \notin SymbolIdx
            THEN [state |-> sd, symbol_data |-> 0, err |-> FALSE, panic |-> TRUE]
            ELSE TextureReadCodeDrop(input, sd, bld,
                                     tree.symbol_value[symbol_index + 1],
                                     tree.code_bits[index_data + 1])
    IN  IF index_data >= MAX_CODE_BITS_LENGTH
        THEN [state |-> sd, symbol_data |-> 0, err |-> FALSE, panic |-> TRUE]
        ELSE Found(SlowSymbolIndex(tree, texture_read_bits(sd, 32), index_data))

\* texture read_code (lines 180-225): the symbol and the new reader state
texture_read_code(tree, input, sd, bld) ==
    LET index_num == AsNat(texture_read_bits(sd, MAX_BITS_HASH))
    IN  IF tree.symbol_value_hash_exist[index_num + 1]
        THEN TextureReadCodeDrop(input, sd, bld,
                                 tree.symbol_value_hash[index_num + 1],
                                 tree.code_bits_hash[index_num + 1])
        ELSE TextureSlowPath(tree, input, sd, bld,
                             ScanClass(tree, texture_read_bits(sd, 32), 0))

\* byte_count bytes from bytes_pixel_blocks * pixel_block_position on lie in
\* the output
BlockInOutput(ff, acc, byte_count) ==
    IF ff.bytes_pixel_blocks = 0 THEN byte_count <= Len(acc.output_data)
    ELSE /\ acc.pixel_block_position <= Len(acc.output_data)
         /\ ff.bytes_pixel_blocks * acc.pixel_block_position + byte_count
                <= Len(acc.output_data)

\* one pass of while temp_code > 0 of decode_white_color (lines 480-492)
WhiteStep(ff, acc) ==
    IF acc.pixel_block_position >= ff.pixel_blocks THEN [acc EXCEPT !.panic = TRUE]
    ELSE IF acc.pixel_block_position \in acc.color_bitmap
    THEN [acc EXCEPT !.pixel_block_position = @ + 1]
    ELSE IF acc.value_data = 0
    THEN [acc EXCEPT !.temp_code = @ - 1, !.pixel_block_position = @ + 1]
    ELSE IF ~BlockInOutput(ff, acc, 1) THEN [acc EXCEPT !.panic = TRUE]
    ELSE [acc EXCEPT
             !.output_data[ff.bytes_pixel_blocks * acc.pixel_block_position + 1]
                 = 255,
             !.alpha_bitmap = @ \cup {acc.pixel_block_position},
             !.color_bitmap = @ \cup {acc.pixel_block_position},
             !.temp_code = @ - 1,
             !.pixel_block_position = @ + 1]

RECURSIVE WhiteCodes(_, _, _)
WhiteCodes(ff, acc, fuel) ==
    IF acc.panic \/ ~(acc.temp_code > 0) THEN acc
    ELSE IF fuel = 1 THEN WhiteStep(ff, acc)
    ELSE WhiteCodes(ff, WhiteCodes(ff, acc, fuel \div 2), fuel - fuel \div 2)

\* one pass of the outer while of decode_white_color (lines 474-493): a run
\* length, one bit, and the run; every pass of the run moves on one block or
\* panics at pixel_blocks
WhitePass(input, bld, ff, acc) ==
    LET Run(c, d) ==
            IF d.err THEN [acc EXCEPT !.state = d.state, !.err = TRUE]
            ELSE WhiteCodes(ff,
                            [acc EXCEPT
                                !.state = d.state,
                                !.temp_code = c.symbol_data,
                                !.value_data = Lo16(texture_read_bits(c.state, 1))],
                            ff.pixel_blocks - acc.pixel_block_position + 1)
        Code(c) ==
            IF c.err \/ c.panic THEN [acc EXCEPT !.state = c.state, !.err = c.err, !.panic = c.panic]
            ELSE Run(c, texture_drop_bits(input, c.state, 1))
    IN  Code(texture_read_code(texture_huffmantree_dict, input, acc.state, bld))

\* the outer while of decode_white_color; a run of the static table is 1 or
\* more, so every pass moves on and pixel_blocks passes end the loop
RECURSIVE WhiteBlocks(_, _, _, _, _)
WhiteBlocks(input, bld, ff, acc, fuel) ==
    IF acc.err \/ acc.panic \/ ~(acc.pixel_block_position < ff.pixel_blocks)
    THEN acc
    ELSE IF fuel = 1 THEN WhitePass(input, bld, ff, acc)
    ELSE WhiteBlocks(input, bld, ff,
                     WhiteBlocks(input, bld, ff, acc, fuel \div 2),
                     fuel - fuel \div 2)

\* decode_white_color (lines 465-501); the while after the outer loop finds
\* pixel_block_position at pixel_blocks and does nothing
decode_white_color(input, bld, ff, acc) ==
    IF acc.err \/ acc.panic THEN acc
    ELSE WhiteBlocks(input, bld, ff, [acc EXCEPT !.pixel_block_position = 0],
                     ff.pixel_blocks)

\* one pass of while temp_code > 0 of the constant-alpha decoders
\* (lines 533-550, 589-606): bytes_component bytes of the source, which has
\* 8 bytes, are copied to the block
AlphaStep(ff, acc, source) ==
    IF acc.pixel_block_position >= ff.pixel_blocks THEN [acc EXCEPT !.panic = TRUE]
    ELSE IF acc.pixel_block_position \in acc.alpha_bitmap
    THEN [acc EXCEPT !.pixel_block_position = @ + 1]
    ELSE IF acc.value_data = 0
    THEN [acc EXCEPT !.temp_code = @ - 1, !.pixel_block_position = @ + 1]
    ELSE IF ff.bytes_component > 8 \/ ~BlockInOutput(ff, acc, ff.bytes_component)
    THEN [acc EXCEPT !.panic = TRUE]
    ELSE LET first == ff.bytes_pixel_blocks * acc.pixel_block_position
         IN  [acc EXCEPT
                 !.output_data =
                     [i \in 1..Len(acc.output_data) |->
                         IF i > first /\ i <= first + ff.bytes_component
                         THEN IF acc.exist # 0 THEN source[i - first] ELSE 0
                         ELSE acc.output_data[i]] \o << >>,
                 !.alpha_bitmap = @ \cup {acc.pixel_block_position},
                 !.temp_code = @ - 1,
                 !.pixel_block_position = @ + 1]

RECURSIVE AlphaCodes(_, _, _, _)
AlphaCodes(ff, acc, source, fuel) ==
    IF acc.panic \/ ~(acc.temp_code > 0) THEN acc
    ELSE IF fuel = 1 THEN AlphaStep(ff, acc, source)
    ELSE AlphaCodes(ff, AlphaCodes(ff, acc, source, fuel \div 2), source,
                    fuel - fuel \div 2)

\* the while after a run (lines 552-556, 607-611): the blocks already
\* written are passed over
RECURSIVE AlphaSkip(_, _, _)
AlphaSkip(ff, acc, fuel) ==
    IF acc.panic \/ ~(acc.pixel_block_position < ff.pixel_blocks
                      /\ acc.pixel_block_position \in acc.alpha_bitmap)
    THEN acc
    ELSE IF fuel = 1 THEN [acc EXCEPT !.pixel_block_position = @ + 1]
    ELSE AlphaSkip(ff, AlphaSkip(ff, acc, fuel \div 2), fuel - fuel \div 2)

\* one pass of the outer while of the constant-alpha decoders: a run length,
\* the bit value_data, the bit exist (dropped only when value_data is set),
\* the run, and the blocks passed over after it
AlphaPass(input, bld, ff, acc, source) ==
    LET Skip(run) == AlphaSkip(ff, run, Cardinality(run.alpha_bitmap) + 1)
        Exist(c, d, e) ==
            IF e.err THEN [acc EXCEPT !.state = e.state, !.err = TRUE]
            ELSE Skip(AlphaCodes(
                          ff,
                          [acc EXCEPT
                              !.state = e.state,
                              !.temp_code = c.symbol_data,
                              !.value_data = Lo16(texture_read_bits(c.state, 1)),
                              !.exist = Lo16(texture_read_bits(d.state, 1))],
                          source,
                          ff.pixel_blocks - acc.pixel_block_position + 1))
        Value(c, d) ==
            IF d.err THEN [acc EXCEPT !.state = d.state, !.err = TRUE]
            ELSE IF Lo16(texture_read_bits(c.state, 1)) # 0
            THEN Exist(c, d, texture_drop_bits(input, d.state, 1))
            ELSE Exist(c, d, d)
        Code(c) ==
            IF c.err \/ c.panic THEN [acc EXCEPT !.state = c.state, !.err = c.err, !.panic = c.panic]
            ELSE Value(c, texture_drop_bits(input, c.state, 1))
    IN  Code(texture_read_code(texture_huffmantree_dict, input, acc.state, bld))

RECURSIVE AlphaBlocks(_, _, _, _, _, _)
AlphaBlocks(input, bld, ff, acc, source, fuel) ==
    IF acc.err \/ acc.panic \/ ~(acc.pixel_block_position < ff.pixel_blocks)
    THEN acc
    ELSE IF fuel = 1 THEN AlphaPass(input, bld, ff, acc, source)
    ELSE AlphaBlocks(input, bld, ff,
                     AlphaBlocks(input, bld, ff, acc, source, fuel \div 2),
                     source, fuel - fuel \div 2)

\* the decoder after its alpha value is read and dropped
AlphaDecoder(input, bld, ff, acc, d, source) ==
    IF d.err THEN [acc EXCEPT !.state = d.state, !.err = TRUE]
    ELSE AlphaBlocks(input, bld, ff,
                     [acc EXCEPT !.state = d.state, !.pixel_block_position = 0],
                     source, ff.pixel_blocks)

\* decode_constant_alpha_from_4_bits (lines 503-559): the 4-bit value a fills
\* every byte of alpha_value as a | a << 4
decode_constant_alpha_from_4_bits(input, bld, ff, acc) ==
    IF acc.err \/ acc.panic THEN acc
    ELSE AlphaDecoder(input, bld, ff, acc, texture_drop_bits(input, acc.state, 4),
                      Array(8, 17 * Lo16(texture_read_bits(acc.state, 4))))

\* decode_constant_alpha_from_8_bits (lines 561-614): wrapping_shl(8) on a u8
\* shifts by 0, so alpha_value is the byte itself followed by zero bytes
decode_constant_alpha_from_8_bits(input, bld, ff, acc) ==
    IF acc.err \/ acc.panic THEN acc
    ELSE AlphaDecoder(input, bld, ff, acc, texture_drop_bits(input, acc.state, 8),
                      <<Lo16(texture_read_bits(acc.state, 8))>> \o Array(7, 0))

\* decode_plain_color (lines 616-653): blue, green and red are read, then
\* unimplemented!() panics
decode_plain_color(input, bld, ff, acc) ==
    LET Colour(d) == IF d.err THEN d ELSE texture_drop_bits(input, d.state, 8)
        Red(red) == [acc EXCEPT !.state = red.state, !.err = red.err,
                                !.panic = ~red.err]
    IN  IF acc.err \/ acc.panic THEN acc
        ELSE Red(Colour(Colour(texture_drop_bits(input, acc.state, 8))))

\* lines 319-373: the sub-decoders whose bit of compression_flag_data
\* (CompressionFlags, lines 97-102) is set, in order
TextureDecoders(input, bld, ff, acc, compression_flag_data) ==
    LET Called(prev, flag) ==
            /\ ~prev.err /\ ~prev.panic
            /\ (Lo16(compression_flag_data) \div flag) % 2 = 1
        Plain(prev) ==
            IF Called(prev, 8) THEN decode_plain_color(input, bld, ff, prev)
            ELSE prev
        Eight(prev) ==
            IF Called(prev, 4)
            THEN decode_constant_alpha_from_8_bits(input, bld, ff, prev)
            ELSE prev
        Four(prev) ==
            IF Called(prev, 2)
            THEN decode_constant_alpha_from_4_bits(input, bld, ff, prev)
            ELSE prev
        White(prev) ==
            IF Called(prev, 1) THEN decode_white_color(input, bld, ff, prev)
            ELSE prev
    IN  Plain(Eight(Four(White(acc))))

\* inflate_texture_data (lines 291-385): data_size, compression_flag_data,
\* the sub-decoders, and the closing seek by -1, which is an Err at position 0.
\* The sub-decoders start on color_bitmap and alpha_bitmap resized to
\* pixel_blocks entries of false (lines 316-317): each is held as the set of
\* the indices whose entry is true.
inflate_texture_data(input, sd, bld, ff, out) ==
    LET Seek(d) == ~d.err /\ ~d.panic /\ d.state.bytes_available_data >= 32
        Close(data_size, flags, d) ==
            [state |-> IF Seek(d) /\ d.state.buffer_position > 0
                       THEN [d.state EXCEPT !.buffer_position = @ - 1]
                       ELSE d.state,
             data_size |-> data_size.value,
             compression_flag_data |-> flags.value,
             output_data |-> d.output_data,
             err |-> d.err \/ (Seek(d) /\ d.state.buffer_position = 0),
             panic |-> d.panic]
        Flags(data_size, flags) ==
            Close(data_size, flags,
                  TextureDecoders(
                      input, bld, ff,
                      [state |-> flags.state, output_data |-> out,
                       color_bitmap |-> {}, alpha_bitmap |-> {},
                       pixel_block_position |-> 0, temp_code |-> 0,
                       value_data |-> 0, exist |-> 0, err |-> flags.err,
                       panic |-> FALSE],
                      flags.value))
        Size(data_size) == Flags(data_size, TextureField(input, data_size, 32))
    IN  Size(TextureField(input, [state |-> sd, value |-> Zero32, err |-> FALSE],
                          32))

\* The exercise: inflate_texture_file_buffer on headers of every format,
\* small and extreme dimensions, whole and cut short, and on textures whose
\* flags word calls the sub-decoders.
\* A texture input: identifier word, fourcc, dimensions word, data size
\* word, flags word (no sub-decoder flag), one data word
TextureWord(x) == << x[2] % 256, x[2] \div 256, x[1] % 256, x[1] \div 256 >>

TextureStream(fourcc, width, height) ==
    <<65, 84, 69, 88>> \o TextureWord(fourcc) \o TextureWord(<<width, height>>)
       \o <<17, 18, 19, 20>> \o <<32, 33, 34, 35>> \o <<49, 50, 51, 52>>

\* every fourcc of deduce_format and one that no arm matches, with
\* dimensions whose output is small, and with the largest dimensions for
\* the formats of 8 bits per pixel and for the unknown format
TextureHeaders ==
    LET fourccs == {FourCC[k] : k \in 1..Len(FourCC)} \cup { <<12628, 22597>> }
    IN  { <<f, w, h>> : f \in fourccs, w \in {0, 1, 4, 5, 9}, h \in {0, 1, 4, 5, 9} }
        \cup { <<f, 65535, 65535>> :
                  f \in {g \in fourccs : deduce_format(g).pixel_size_bits # 4} }

\* A texture of 4 or 8 bits per pixel or of no known format, of 0, 1, 6 or
\* 9 blocks, with sub-decoder flags and a body.  The flags words call the
\* sub-decoders alone and one after another.  The bodies, the data after the
\* flags word: none, runs of 1 with both bits set, a run of 18 and short runs
\* whose bits are clear, mixed runs, bodies that a debug build decodes to the
\* end with blocks written by decode_white_color and by each constant-alpha
\* decoder, and a body of 8 words.
TextureFlagged ==
    LET bodies == { << >>,
                    <<255, 255, 255, 255, 255, 255, 255, 255>>,
                    <<85, 85, 85, 85, 0, 0, 0, 0>>,
                    <<92, 63, 34, 5, 208, 179, 150, 121, 126, 97, 68, 39>>,
                    <<0, 255, 1, 255>>,
                    <<219, 0, 255, 255, 129, 186, 231, 253, 255, 0, 214, 255>>,
                    <<0, 98, 255, 29>>,
                    <<255, 255, 255, 179>>,
                    [k \in 1..32 |-> (5 + 29 * (k - 1)) % 256] \o << >> }
        flags == {1, 2, 4, 8, 3, 5, 6}
    IN  { SubSeq(TextureStream(x[1], x[2], x[3]), 1, 16) \o <<f, 0, 0, 0>> \o b :
             x \in { <<g, d[1], d[2]>> :
                        g \in {FourCC[1], FourCC[5], <<12628, 22597>>},
                        d \in { <<0, 0>>, <<4, 4>>, <<5, 9>>, <<9, 9>> } },
             f \in flags, b \in bodies }

\* the inputs: each header whole, and cut short at and inside its words, and
\* the textures with sub-decoder flags
TextureInputs ==
    { SubSeq(TextureStream(x[1], x[2], x[3]), 1, n) :
         x \in TextureHeaders, n \in {0, 3, 8, 11, 12, 16, 19, 20, 24} }
    \cup TextureFlagged

TextureInit ==
    /\ input_data \in TextureInputs
    /\ build \in {"debug", "release"}
    /\ state_data = TextureStateData(input_data, 0)
    /\ output_data_size \in {0, 1}
    /\ output_data \in Priors
    /\ output_twin = << >>
    /\ output_position = 0
    /\ write_size_const_addition = 0
    /\ huffmantree_symbol = HuffmanTree
    /\ huffmantree_copy = HuffmanTree
    /\ huffmantree_builder = HuffmanTreeBuilder
    /\ max_count = 0
    /\ current_code_read_count = 0
    /\ token = NoToken
    /\ declarations = << >>
    /\ decoded = << >>
    /\ pc = "texture"

TextureHeaderStep(panic, next) ==
    /\ pc = "texture"
    /\ LET h == TextureHeaderRead(input_data, build)
       IN  /\ ~h.err
           /\ h.full_format_data.panic = panic
           /\ state_data' = h.state
           /\ decoded' = h.full_format_data
           /\ IF panic
              THEN UNCHANGED <<output_data_size, output_data>>
              ELSE /\ output_data_size'
                         = AsNat(h.full_format_data.texture_output_size)
                   /\ output_data'
                         = resize(output_data,
                                  AsNat(h.full_format_data.texture_output_size))
    /\ pc' = next
    /\ UNCHANGED <<input_data, build, output_twin, output_position,
                   write_size_const_addition, huffmantree_symbol, huffmantree_copy,
                   huffmantree_builder, max_count, current_code_read_count, token,
                   declarations>>

\* the header is read and output_data resized
TextureHeader == TextureHeaderStep(FALSE, "texture_data")
\* "attempt to multiply with overflow" at line 271 in a debug build
TextureHeaderPanic == TextureHeaderStep(TRUE, "abort")

TextureDataStep(err, panic, next) ==
    /\ pc = "texture_data"
    /\ LET Returned(d) ==
               /\ d.err = err
               /\ d.panic = panic
               /\ state_data' = d.state
               /\ output_data' = d.output_data
               /\ decoded' = [full_format_data |-> decoded,
                              data_size |-> d.data_size,
                              compression_flag_data |-> d.compression_flag_data]
       IN  Returned(inflate_texture_data(input_data, state_data, build, decoded,
                                         output_data))
    /\ pc' = next
    /\ UNCHANGED <<input_data, build, output_data_size, output_twin,
                   output_position, write_size_const_addition, huffmantree_symbol,
                   huffmantree_copy, huffmantree_builder, max_count,
                   current_code_read_count, token, declarations>>

\* inflate_texture_data returns Ok, and so does the call
TextureData == TextureDataStep(FALSE, FALSE, "done")
\* the closing seek fails: the call returns its Err
TextureDataErr == TextureDataStep(TRUE, FALSE, "err")
\* a sub-decoder panics: an index out of range, or unimplemented!()
TextureDataPanic == TextureDataStep(FALSE, TRUE, "texture_abort")

TextureNext ==
    \/ TextureHeader
    \/ TextureHeaderPanic
    \/ TextureData
    \/ TextureDataErr
    \/ TextureDataPanic

SpecTexture == TextureInit /\ [][TextureNext]_vars

\* ------------------------------------------------------------------------
\* The reader exercise: pull_byte, then drop_bits calls of several widths,
\* on inputs of every length with and without trailing bytes; a twin reader
\* runs on the input cut to its whole words
\* ------------------------------------------------------------------------
MaxDropped == 150
\* the inputs: every prefix of two byte strings of three words and three
\* trailing bytes
BitsInputs ==
    UNION { { SubSeq(b, 1, n) : n \in 0..Len(b) } :
               b \in { <<129, 66, 36, 24, 255, 0, 165, 90, 1, 128, 126, 231,
                         195, 60, 85>>,
                       <<0, 0, 0, 128, 1, 0, 0, 0, 255, 255, 255, 255,
                         170, 1, 128>> } }
\* the widths of the drop_bits calls
BitsDrops == {1, 7, 16, 31, 32}

WholeWords(input) == SubSeq(input, 1, 4 * (Len(input) \div 4))

BitsInit ==
    /\ input_data \in BitsInputs
    /\ build \in {"debug", "release"}
    /\ state_data = StateData(input_data)
    /\ output_data_size = 0
    /\ output_data = << >>
    /\ output_twin = << >>
    /\ output_position = 0
    /\ write_size_const_addition = 0
    /\ huffmantree_symbol = HuffmanTree
    /\ huffmantree_copy = HuffmanTree
    /\ huffmantree_builder = HuffmanTreeBuilder
    /\ max_count = 0
    /\ current_code_read_count = 0
    /\ token = NoToken
    /\ declarations = << >>
    /\ decoded = [dropped |-> 0, underflow |-> FALSE,
                  twin |-> StateData(WholeWords(input_data))]
    /\ pc = "pull"

\* lines 210-213: the first pull_byte, its word put in head
PullFirst ==
    /\ pc = "pull"
    /\ state_data' = FirstPull(pull_byte(input_data, state_data))
    /\ decoded' = [decoded EXCEPT
                      !.twin = FirstPull(pull_byte(WholeWords(input_data), @))]
    /\ pc' = "bits"
    /\ UNCHANGED <<input_data, build, output_data_size, output_data, output_twin,
                   output_position, write_size_const_addition, huffmantree_symbol,
                   huffmantree_copy, huffmantree_builder, max_count,
                   current_code_read_count, token, declarations>>

DropApply(bits_number) ==
    /\ state_data' = drop_bits(input_data, state_data, bits_number)
    /\ decoded' = [dropped |-> decoded.dropped + bits_number,
                   underflow |-> decoded.underflow
                                    \/ state_data.bytes_available_data < bits_number,
                   twin |-> drop_bits(WholeWords(input_data), decoded.twin,
                                      bits_number)]

\* one drop_bits call of at most the live bits
DropBits ==
    /\ pc = "bits"
    /\ \E n \in BitsDrops :
          /\ decoded.dropped + n <= MaxDropped
          /\ n <= state_data.bytes_available_data
          /\ DropApply(n)
    /\ UNCHANGED <<input_data, build, output_data_size, output_data, output_twin,
                   output_position, write_size_const_addition, huffmantree_symbol,
                   huffmantree_copy, huffmantree_builder, max_count,
                   current_code_read_count, token, declarations, pc>>

\* one drop_bits call of more than the live bits
DropTooMuch ==
    /\ pc = "bits"
    /\ \E n \in BitsDrops :
          /\ decoded.dropped + n <= MaxDropped
          /\ n > state_data.bytes_available_data
          /\ DropApply(n)
    /\ UNCHANGED <<input_data, build, output_data_size, output_data, output_twin,
                   output_position, write_size_const_addition, huffmantree_symbol,
                   huffmantree_copy, huffmantree_builder, max_count,
                   current_code_read_count, token, declarations, pc>>

BitsNext ==
    \/ PullFirst
    \/ DropBits
    \/ DropTooMuch

SpecBits == BitsInit /\ [][BitsNext]_vars

\* ------------------------------------------------------------------------
\* Properties
\* ------------------------------------------------------------------------
\* input bytes 4..7 as a little-endian u32
HeaderSize ==
    input_data[5] + 256 * input_data[6] + 65536 * input_data[7]
        + 16777216 * input_data[8]

\* C1: whenever inflate_dat_file_buffer returns Ok, the length of output_data
\* equals output_data_size, which is the header's uncompressed_size; for every
\* input, truncated or corrupt, and any prior length of output_data.
C1_OutputSize ==
    pc = "done" =>
        /\ Len(output_data) = output_data_size
        /\ Len(input_data) >= 8 => output_data_size = HeaderSize

\* a call that stopped early on a receiver that held bytes before the call
C1_Witness ==
    /\ pc = "done"
    /\ output_data_size > 0
    /\ output_position < output_data_size
    /\ output_data[1] = PriorByte

\* C2: for every input of at least 8 bytes, the uncompressed_size reported
\* equals input bytes 4..7 read as a little-endian u32, whatever the other
\* bytes are.
C2_SizeWord ==
    (pc # "start" /\ Len(input_data) >= 8) => output_data_size = HeaderSize

\* a size of two significant bytes, read from an input with other bytes set
C2_Witness ==
    /\ pc = "done"
    /\ Len(input_data) >= 12
    /\ output_data_size = 258
    /\ input_data[5] = 2 /\ input_data[6] = 1
    /\ input_data[9] # 0

\* C3 as stated: after the header the reader has consumed exactly 96 bits, so
\* that the block header begins at bit 96 of the input.
C3_Original == pc = "inflate" => Dropped(state_data) = 96

\* C3: after the header the reader has consumed exactly 64 bits (the skipped
\* word and the size word); the third word is the first data word: it is the
\* head of the reader when inflate_data begins, and the block header is read
\* from its top 8 bits (drop 4, read 4 without consuming, drop 4), the addend
\* being bits 68..71 of the input plus one.
C3_Amended ==
    /\ pc = "inflate" =>
          /\ Dropped(state_data) = 64
          /\ Len(input_data) >= 12 =>
                state_data.head_data =
                    read_u32_le(input_data[9], input_data[10], input_data[11],
                                input_data[12])
    /\ (pc \notin {"start", "inflate"} /\ Len(input_data) >= 12) =>
          write_size_const_addition = (input_data[12] % 16) + 1

\* the block header read from the third word: the addend 3 of a stream whose
\* byte 11 is 2
C3_Witness ==
    /\ pc = "block"
    /\ Dropped(state_data) = 72
    /\ write_size_const_addition = 3
    /\ input_data[12] = 2

\* C4: for a declaration list of distinct symbols in 0..284 with lengths in
\* 1..31 and Kraft sum at most 1, read_code on the canonical code of a declared
\* symbol followed by arbitrary bits returns that symbol and consumes exactly
\* its length in bits.
C4_RoundTrip ==
    pc = "read" =>
        /\ ~decoded.read.panic
        /\ decoded.read.symbol_data = decoded.declared[1]
        /\ decoded.read.bits = decoded.declared[2]
        /\ decoded.dropped = decoded.declared[2]

\* the longest code of a full list, decoded by the slow path
C4_Witness ==
    /\ pc = "read"
    /\ Len(declarations) = 3
    /\ decoded.declared = <<MAX_SYMBOL_VALUE - 1, MAX_CODE_BITS_LENGTH - 1>>
    /\ decoded.read.symbol_data = MAX_SYMBOL_VALUE - 1

\* C5 as stated: for an 8-bit prefix with a hash entry, the slow path on a
\* word with that prefix yields the same (symbol, length) as the fast path.
C5_Original == pc = "probed" => decoded.slow = decoded.fast

\* C5: for every built table and every 8-bit prefix h with a hash entry,
\* read_code on a word whose top 8 bits are h takes the fast path and yields
\* (symbol_value_hash[h], code_bits_hash[h]): a declared symbol of length at
\* most 8 whose canonical code is the top bits of h.  The classes of the slow
\* path hold only the lengths 9..31, and the slow path on such a word does not
\* yield the fast path's result.
C5_Amended ==
    pc = "probed" =>
        /\ decoded.read = decoded.fast
        /\ ~decoded.fast.panic
        /\ decoded.fast.bits \in 1..MAX_BITS_HASH
        /\ \E j \in 1..Len(declarations) :
              /\ declarations[j] = <<decoded.fast.symbol_data, decoded.fast.bits>>
              /\ CanonicalCode(declarations, j) =
                    ToU32(decoded.prefix \div Pow2(MAX_BITS_HASH - decoded.fast.bits))
        /\ \A i \in ClassIdx :
              huffmantree_symbol.code_bits[i + 1] = 0
                  \/ huffmantree_symbol.code_bits[i + 1] > MAX_BITS_HASH
        /\ decoded.slow # decoded.fast

\* a short code on which the slow path returns a symbol without a panic
C5_Witness ==
    /\ pc = "probed"
    /\ ~decoded.slow.panic
    /\ decoded.fast.symbol_data = MAX_SYMBOL_VALUE - 1

\* C6 as stated: whenever a copy token is decoded at output position p with
\* offset D, 1 <= D and D <= p.
C6_Original ==
    token.kind = "copy" =>
        /\ token.write_offset # Zero32
        /\ Below(token.write_offset, token.position + 1)

\* C7 as stated: for every input the call returns normally; no index is out
\* of range and no arithmetic or shift overflows.
C7_Original == pc # "abort"

\* C8: decoding always stops: for every finite input the call eventually
\* finishes.
C8_Terminates == <>(pc \in {"done", "abort"})

\* the block loop ended by a failed table parse on an exhausted input, the
\* output not full
C8_Witness ==
    /\ pc = "done"
    /\ output_position < output_data_size
    /\ state_data.bytes_available < 4
    /\ state_data.position >= 12

\* C9 as stated: two calls on the same input end with the same output_data,
\* whatever the two receivers held before.
C9_Original == pc = "done" => output_data = output_twin

\* the smaller of two naturals
Min(a, b) == IF a < b THEN a ELSE b

\* C10: a copy token decoded at position p with offset D (1 <= D <= p) and
\* length L writes output[p+k] = output[p+k-D] for each k below
\* min(L, uncompressed_size - p), byte by byte in increasing k, and advances the
\* position by exactly that many bytes.
C10_CopySemantics ==
    (token.kind = "copy" /\ pc # "abort" /\ token.write_offset # Zero32
        /\ Below(token.write_offset, token.position + 1)) =>
        /\ output_position =
              token.position
                  + Min(LoopBound(token.write_size),
                        output_data_size - token.position)
        /\ \A k \in 0..(Min(LoopBound(token.write_size),
                             output_data_size - token.position) - 1) :
              output_data[token.position + k + 1] =
                  output_data[token.position + k + 1 - AsNat(token.write_offset)]

\* a copy longer than its offset: the run is extended
C10_Witness ==
    /\ token.kind = "copy"
    /\ pc = "token"
    /\ Fits31(token.write_size)
    /\ Below(token.write_offset, AsNat(token.write_size))
    /\ ~Below(token.write_offset, 2)
    /\ output_position = token.position + AsNat(token.write_size)

\* C11 as stated: in the table of the static dictionary a stream that begins
\* with 110 decodes to 0x0A and consumes 3 bits.
C11_Original ==
    (pc = "dict" /\ decoded.pattern = 6) =>
        /\ decoded.read.symbol_data = 10
        /\ decoded.dropped = 3

\* C11: in the table of the static dictionary the three 3-bit codes are given
\* from the last declared symbol down: 111 decodes to 0x08, 110 to 0x09 and
\* 101 to 0x0A (the first declared 3-bit symbol), each consuming 3 bits.
C11_Amended ==
    (pc = "dict" /\ decoded.pattern \in {5, 6, 7}) =>
        /\ ~decoded.read.panic
        /\ decoded.read.symbol_data = 15 - decoded.pattern
        /\ decoded.read.bits = 3
        /\ decoded.dropped = 3

\* the pattern 110 read as 0x09
C11_Witness ==
    /\ pc = "dict"
    /\ decoded.pattern = 6
    /\ decoded.read.symbol_data = 9
    /\ decoded.dropped = 3

\* C12 as stated: a copy token whose copy symbol t has q = t / 2 >= 17 (an
\* invalid offset code) is decoded with offset D = 1 and decoding continues.
\* Lines 331-338 read and add the q - 1 extra bits also for an invalid code,
\* so the offset is 1 plus those bits; for q - 1 >= 32 the read panics in a
\* debug build.
C12_Original ==
    (token.kind = "copy" /\ token.copy_symbol >= 34) => token.write_offset = One32

\* C13 as stated: a table header whose count exceeds 285 is parsed as if the
\* count were 285, so no symbol index >= 285 is ever declared in the builder.
\* Lines 773-775 only print: remaining_symbol starts at count - 1 and line 789
\* hands it to add_symbol, which stores it as the head of its bit length.
C13_Original ==
    \A i \in ClassIdx :
       huffmantree_builder.bits_head_exist[i + 1]
          => huffmantree_builder.bits_head[i + 1] \in SymbolIdx

\* C14: when a block's symbol table or copy table ends with no declared
\* symbol (the builder is as HuffmanTreeBuilder::default made it) and no index
\* went out of range, the block is abandoned: the call ends with Ok, no token
\* is decoded, and output_position and output_data are as they were.
C14_EmptyTable ==
    [][(/\ pc = "block"
        /\ output_position < output_data_size
        /\ huffmantree_builder' = HuffmanTreeBuilder
        /\ pc' # "abort")
          => /\ pc' = "done"
             /\ token' = token
             /\ current_code_read_count' = 0
             /\ output_position' = output_position
             /\ output_data' = output_data]_vars

\* the symbol table of a block parsed, its copy table declared nothing, and
\* the call ended with the receiver's bytes untouched
C14_Witness ==
    /\ pc = "done"
    /\ output_position = 0
    /\ output_position < output_data_size
    /\ huffmantree_builder = HuffmanTreeBuilder
    /\ huffmantree_symbol # HuffmanTree
    /\ token = NoToken
    /\ output_data = <<PriorByte, PriorByte>>

\* the declarations of one bit length come in the same order in both lists
SameOrderPerLength(d, e) ==
    \A i, j \in 1..Len(d), k, l \in 1..Len(e) :
       (d[i] = e[k] /\ d[j] = e[l] /\ d[i][2] = d[j][2]) => (i < j <=> k < l)

\* C15 as stated: the same declarations in any order of the add_symbol calls
\* give an identical table.
C15_Original == pc = "rebuilt" => huffmantree_copy = huffmantree_symbol

\* C15: two builders fed the same declarations give tables with equal
\* code_comparison, code_bits, symbol_value_offset, symbol_value_hash_exist
\* and code_bits_hash in any order of the add_symbol calls; symbol_value and
\* symbol_value_hash, and so the whole table, are equal when the declarations
\* of each bit length come in the same order in both.
C15_Amended ==
    pc = "rebuilt" =>
       /\ decoded.ok
       /\ huffmantree_copy.code_comparison = huffmantree_symbol.code_comparison
       /\ huffmantree_copy.code_bits = huffmantree_symbol.code_bits
       /\ huffmantree_copy.symbol_value_offset = huffmantree_symbol.symbol_value_offset
       /\ huffmantree_copy.symbol_value_hash_exist
             = huffmantree_symbol.symbol_value_hash_exist
       /\ huffmantree_copy.code_bits_hash = huffmantree_symbol.code_bits_hash
       /\ SameOrderPerLength(declarations, decoded.order)
             => huffmantree_copy = huffmantree_symbol

\* three declarations, two of one bit length, declared again with a
\* neighbour of another bit length exchanged: the tables are equal
C15_Witness ==
    /\ pc = "rebuilt"
    /\ Len(declarations) = 3
    /\ decoded.order # declarations
    /\ declarations[1][2] = declarations[3][2]
    /\ declarations[1][2] # declarations[2][2]
    /\ SameOrderPerLength(declarations, decoded.order)
    /\ huffmantree_copy = huffmantree_symbol
    /\ huffmantree_symbol # HuffmanTree

\* bit i (i = 0, 1, ...) of the abstract stream of an input: its whole
\* 32-bit words in order, each little-endian with its top bit first, then zeros
StreamBit(input, i) ==
    IF 4 * (i \div 32) + 4 > Len(input) THEN 0
    ELSE (input[4 * (i \div 32) + 4 - ((i % 32) \div 8)] \div Pow2(7 - (i % 8))) % 2

\* bits [first, first + n) of the stream as a number, n <= 16
RECURSIVE StreamBits(_, _, _)
StreamBits(input, first, n) ==
    IF n = 0 THEN 0
    ELSE 2 * StreamBits(input, first, n - 1) + StreamBit(input, first + n - 1)

\* bits [first, first + n) of the stream as a u32, n <= 32
StreamValue(input, first, n) ==
    IF n <= 16 THEN <<0, StreamBits(input, first, n)>>
    ELSE <<StreamBits(input, first, n - 16), StreamBits(input, first + n - 16, 16)>>

\* C16 as stated: after the call, fourcc is stream bits [32,64), width is
\* bits [96,112), height is bits [128,144), and data_size and the flags are
\* the 64 bits from bit 160.
C16_Original ==
    pc \in {"done", "err", "texture_abort"} =>
       /\ decoded.full_format_data.fourcc_format
             = StreamValue(input_data, 32, 32)
       /\ decoded.full_format_data.width = StreamBits(input_data, 96, 16)
       /\ decoded.full_format_data.height = StreamBits(input_data, 128, 16)
       /\ decoded.data_size = StreamValue(input_data, 160, 32)
       /\ decoded.compression_flag_data
             = StreamValue(input_data, 192, 32)

\* C16: inflate_texture_file_buffer reads the header as [skip32, fourcc32,
\* width16, height16] with nothing between the fields: fourcc is stream bits
\* [32,64), width is bits [64,80), height is bits [80,96), and the
\* sub-decoder data starts at bit 96 (data_size is bits [96,128), the flags
\* are bits [128,160)).
C16_Amended ==
    pc \in {"done", "err", "texture_abort"} =>
       /\ decoded.full_format_data.fourcc_format
             = StreamValue(input_data, 32, 32)
       /\ decoded.full_format_data.width = StreamBits(input_data, 64, 16)
       /\ decoded.full_format_data.height = StreamBits(input_data, 80, 16)
       /\ decoded.data_size = StreamValue(input_data, 96, 32)
       /\ decoded.compression_flag_data
             = StreamValue(input_data, 128, 32)

\* a whole header of a known format with width 5 and height 9 was read, and
\* the data size and flags words after it
C16_Witness ==
    /\ pc = "done"
    /\ Len(input_data) = 24
    /\ decoded.full_format_data.format.pixel_size_bits = 4
    /\ decoded.full_format_data.width = 5
    /\ decoded.full_format_data.height = 9
    /\ input_data[11] = 5 /\ input_data[9] = 9
    /\ decoded.data_size = <<5139, 4625>>
    /\ decoded.compression_flag_data = <<8994, 8480>>

\* C17 as stated: for every width, height and recognised fourcc the call
\* gets past the size computation, and the reported output size and the
\* length of output_data are ceil(w/4) * ceil(h/4) * (pixel_size_bits * 2)
\* exactly.  Line 271 multiplies in u32: for w = h = 65535 and 8 bits per
\* pixel the product is 2^32.  The exact product is held in 16-bit limbs:
\* hi is 65536 or more when it does not fit 32 bits.
C17_Original ==
    (pc \in {"texture_data", "abort"} /\ decoded.format.pixel_size_bits # 0) =>
       LET blocks == ((decoded.width + 3) \div 4) * ((decoded.height + 3) \div 4)
           lo == (blocks % 65536) * (decoded.format.pixel_size_bits * 2)
           hi == (blocks \div 65536) * (decoded.format.pixel_size_bits * 2)
                    + lo \div 65536
       IN  /\ pc = "texture_data"
           /\ ToU32(output_data_size) = <<hi, lo % 65536>>
           /\ Len(output_data) = output_data_size

\* C18 as stated: in every reader state, also with fewer than n live bits,
\* read_bits(n) for 1 <= n <= 32 is head >> (32 - n), a value below 2^n.
\* Lines 95-106 shift the value back up by 32 - n when fewer than n bits are
\* live and n < 32.
C18_Original ==
    \A n \in 1..32 :
       read_bits(state_data, n) = Shr(state_data.head_data, 32 - n)

\* C19: after the first pull and drop_bits calls of n_i bits, 1 <= n_i <= 32,
\* none asking for more than the live bits, read_bits(n) for every n up to
\* the live-bit count (and 32) is bits [P, P + n) of the stream of the
\* input's whole words followed by zeros, P being the sum of the n_i.
C19_Cursor ==
    (pc = "bits" /\ ~decoded.underflow) =>
       \A n \in 1..32 :
          n <= state_data.bytes_available_data
             => read_bits(state_data, n) = StreamValue(input_data, decoded.dropped, n)

\* 33 bits of a three-word input were dropped, by a drop of 32 bits and a
\* drop that straddles head and buffer: 63 bits are live, and the 32 bits
\* read span the second and the third word
C19_Witness ==
    /\ pc = "bits"
    /\ ~decoded.underflow
    /\ Len(input_data) = 12
    /\ decoded.dropped = 33
    /\ state_data.bytes_available_data = 63
    /\ state_data.head_data = <<46410, 511>>
    /\ read_bits(state_data, 32) = StreamValue(input_data, 33, 32)

\* C20: in every reader state pull_byte gives the little-endian word at the
\* cursor with 32 bits, moving the cursor and the remaining-byte count by
\* four, when at least four input bytes remain, and word 0 with 0 bits and an
\* unchanged reader otherwise; a reader of the input and a reader of the
\* input without its 1 to 3 trailing bytes hold the same head, buffer,
\* live-bit count and cursor after the same drop_bits calls.
C20_PullByte ==
    pc = "bits" =>
       /\ state_data.bytes_available = Len(input_data) - state_data.position
       /\ IF Len(input_data) - state_data.position >= 4
          THEN /\ pull_byte(input_data, state_data).bytes_available_data = 32
               /\ pull_byte(input_data, state_data).head_data
                     = << input_data[state_data.position + 4] * 256
                             + input_data[state_data.position + 3],
                          input_data[state_data.position + 2] * 256
                             + input_data[state_data.position + 1] >>
               /\ pull_byte(input_data, state_data).state.position
                     = state_data.position + 4
               /\ pull_byte(input_data, state_data).state.bytes_available
                     = state_data.bytes_available - 4
          ELSE /\ pull_byte(input_data, state_data).bytes_available_data = 0
               /\ pull_byte(input_data, state_data).head_data = Zero32
               /\ pull_byte(input_data, state_data).state = state_data
       /\ state_data
             = [decoded.twin EXCEPT !.bytes_available = @ + (Len(input_data) % 4)]

\* every word of an input with three trailing bytes was pulled, drops went
\* on past the end, and the trailing bytes were never read
C20_Witness ==
    /\ pc = "bits"
    /\ Len(input_data) = 15
    /\ state_data.position = 12
    /\ state_data.bytes_available = 3
    /\ decoded.dropped > 96
    /\ decoded.underflow
    /\ decoded.twin.bytes_available = 0
    /\ pull_byte(input_data, state_data).bytes_available_data = 0

\* C21 as stated: in every reader state, also after a drop_bits call that
\* asks for more bits than are live, bytes_available_data is at most 64.
\* Line 118 subtracts with wrapping_sub in u8: after such a call the count is
\* 224 or more.
C21_Original == state_data.bytes_available_data <= 64

\* C22: in every step the output position does not decrease and stays at
\* most output_data_size; once the output is allocated, a step changes
\* output_data only at the indices from the old position up to the new one:
\* the bytes below the old position (written before) and the bytes from the
\* new position on (not yet written) are as they were, and the length is
\* unchanged.
C22_OutputOrder ==
    [][/\ output_position' >= output_position
       /\ pc # "start" =>
             /\ output_position' <= output_data_size'
             /\ Len(output_data') = Len(output_data)
             /\ \A i \in 1..Len(output_data) :
                   (i <= output_position \/ i > output_position')
                      => output_data'[i] = output_data[i]]_vars

\* a copy token has written the last bytes of an output that began with
\* literals, up to uncompressed_size and not beyond
C22_Witness ==
    /\ pc = "token"
    /\ token.kind = "copy"
    /\ token.position >= 2
    /\ output_position = output_data_size
    /\ output_position > token.position + 1
    /\ output_data[1] # output_data[2]

\* C23 as stated: a copy token whose length symbol is s in 256..284 has the
\* length L = (base | extra) + write_size_addend, where with v = s - 256,
\* q = v / 4, r = v % 4 the base is v for q = 0, 2^(q-1) * (4 + r) for
\* 1 <= q < 7 and 255 for s = 284, and extra is the next q - 1 bits of the
\* stream after the code of s for 2 <= q < 7; the bits consumed after the
\* code are q - 1 for 1 <= q < 7 and none otherwise.  (The low q - 1 bits of
\* the base are clear, so the OR is a sum.)
C23_Original ==
    [][(/\ pc = "token"
        /\ current_code_read_count' = current_code_read_count + 1
        /\ token'.kind = "copy"
        /\ token'.symbol_data \in 256..284)
       => LET c == read_code(huffmantree_symbol, input_data, state_data, build)
              v == token'.symbol_data - 256
              q == v \div 4
              r == v % 4
              base == IF q = 0 THEN v
                      ELSE IF q < 7 THEN Pow2(q - 1) * (4 + r)
                      ELSE 255
              n == IF q \in 1..6 THEN q - 1 ELSE 0
              extra == StreamBits(input_data, Dropped(c.state), n)
              ws == DecodeWriteSize(input_data, c.state, build, v,
                                    write_size_const_addition)
          IN  /\ token'.write_size
                     = ToU32(base + extra + write_size_const_addition)
              /\ Dropped(ws.state) = Dropped(c.state) + n]_vars

\* C24 as stated: a copy token whose copy symbol is t with q = t / 2 < 17 and
\* r = t % 2 has the offset D = (base | extra) + 1, where the base is t for
\* q = 0 and 2^(q-1) * (2 + r) for 1 <= q < 17, and extra is the next q - 1
\* bits of the stream after the code of t, exactly q - 1 bits being consumed;
\* D is at least 1, and t = 0 gives D = 1.
C24_Original ==
    [][(/\ pc = "token"
        /\ current_code_read_count' = current_code_read_count + 1
        /\ token'.kind = "copy"
        /\ token'.copy_symbol \div 2 < 17)
       => LET c == read_code(huffmantree_symbol, input_data, state_data, build)
              ws == DecodeWriteSize(input_data, c.state, build,
                                    c.symbol_data - 256,
                                    write_size_const_addition)
              c2 == read_code(huffmantree_copy, input_data, ws.state, build)
              t == token'.copy_symbol
              q == t \div 2
              r == t % 2
              base == IF q = 0 THEN t ELSE Pow2(q - 1) * (2 + r)
              n == IF q >= 1 THEN q - 1 ELSE 0
              extra == StreamBits(input_data, Dropped(c2.state), n)
          IN  /\ token'.write_offset = ToU32(base + extra + 1)
              /\ token'.write_offset # Zero32
              /\ t = 0 => token'.write_offset = One32
              /\ Dropped(state_data') = Dropped(c2.state) + n]_vars

\* C25 as stated: the parse of a table whose header carries the count c
\* declares only indices in 0..c-1, from c-1 downward, and stops at index 0:
\* a run longer than the remaining indices declares no index below 0.  Here
\* for the symbol table of a block: the parse never reaches add_symbol with
\* remaining_symbol below 0 (the loop result keeps the index at which a
\* declaration went out of range), and every head of the builder it leaves
\* is below c.
C25_Original ==
    (pc = "block" /\ output_position < output_data_size)
       => LET symbol_number == Lo16(read_bits(state_data, 16))
              p == ParseFrom(input_data, build,
                             drop_bits(input_data, state_data, 16),
                             AsI16(symbol_number + 65535))
          IN  /\ ~(p.panic /\ p.remaining_symbol < 0)
              /\ \A i \in ClassIdx :
                    p.builder.bits_head_exist[i + 1]
                       => p.builder.bits_head[i + 1] < symbol_number

\* C26 as stated: the prologue read once before the first block is 12 bits
\* long (skip 4, addend 4, skip 4), the addend lies in 1..16 and never
\* changes afterwards, and a later block starts directly with its symbol
\* table.  Lines 236-239 drop 4 bits, read 4 bits without consuming them and
\* drop 4 bits: the second drop consumes the addend's bits.
C26_Original ==
    [][/\ pc = "inflate"
          => /\ Dropped(state_data') = Dropped(state_data) + 12
             /\ write_size_const_addition' \in 1..16
       /\ pc # "inflate" => write_size_const_addition' = write_size_const_addition]_vars

\* C26: the prologue is read exactly once per call, before the first block,
\* and consumes 8 bits: 4 skipped bits and the 4 bits of the addend, which is
\* those bits plus one and lies in 1..16.  No later step changes the addend,
\* so every copy token of every block adds the same value.  Every block,
\* the first and the later ones, parses its symbol table from the reader as
\* the step before left it: a later block starts directly with the 16-bit
\* count.
C26_Amended ==
    [][/\ pc = "inflate"
          => /\ pc' = "block"
             /\ Dropped(state_data') = Dropped(state_data) + 8
             /\ write_size_const_addition'
                   = StreamBits(input_data, Dropped(state_data) + 4, 4) + 1
             /\ write_size_const_addition' \in 1..16
       /\ pc # "inflate" => write_size_const_addition' = write_size_const_addition
       /\ (pc = "block" /\ pc' = "token")
          => huffmantree_symbol'
                = parse_huffmantree(input_data, state_data, build,
                                    huffmantree_symbol).tree]_vars

\* the copy token of the second block of the two-block stream: 4096 literals
\* of the first block and one of the second precede it, and its length is
\* 2 plus the addend 3 of the prologue
C26_Witness ==
    /\ pc = "block"
    /\ token.kind = "copy"
    /\ token.position = 4097
    /\ token.symbol_data = 258
    /\ write_size_const_addition = 3
    /\ token.write_size = ToU32(5)
    /\ output_position = output_data_size

\* the sum of 2^(l - b) over the declarations i..j of a list whose length b is
\* below l
RECURSIVE ShorterWeightIn(_, _, _, _)
ShorterWeightIn(decls, l, i, j) ==
    IF i > j THEN 0
    ELSE IF i = j
    THEN (IF decls[i][2] < l THEN Pow2(l - decls[i][2]) ELSE 0)
    ELSE ShorterWeightIn(decls, l, i, (i + j) \div 2)
         + ShorterWeightIn(decls, l, (i + j) \div 2 + 1, j)

\* the code of declaration i of the static dictionary by the convention of
\* CanonicalCode, most significant bit first, then the tail
DictCodeWord(i, tail) ==
    LET l == DictDeclarations[i][2]
        code == Pow2(l) - 1 - ShorterWeightIn(DictDeclarations, l, 1, 256)
                - Cardinality({j \in (i + 1)..256 : DictDeclarations[j][2] = l})
    IN  Or32(Shl(ToU32(code), 32 - l), Shr(tail, l))

\* C27: the static dictionary is 256 declarations, one for each byte value
\* 0..255, with lengths in 3..16 whose sum of 2^(-length) is exactly 1 (2^17
\* in units of 2^(-17)).  In the table built from it read_code decodes the
\* canonical code of every declaration, whatever bits follow it, to that
\* declaration's symbol and consumes its length; the code being complete,
\* every 32-bit word begins with exactly one of these codes.  The words the
\* exercise reads decode accordingly: a declared symbol, 3 to 16 bits.
C27_StaticDictionary ==
    pc = "dict" =>
       /\ Len(DictDeclarations) = 256
       /\ \A v \in 0..255 :
             Cardinality({i \in 1..256 : DictDeclarations[i][1] = v}) = 1
       /\ \A i \in 1..256 : DictDeclarations[i][2] \in 3..16
       /\ ShorterWeightIn(DictDeclarations, 17, 1, 256) = Pow2(17)
       /\ \A i \in 1..256, tail \in Tails :
             LET r == read_code(dat_file_huffmantree_dict, << >>,
                                Reader(DictCodeWord(i, tail)), build)
             IN  /\ ~r.panic
                 /\ r.symbol_data = DictDeclarations[i][1]
                 /\ r.bits = DictDeclarations[i][2]
                 /\ Dropped(r.state) = DictDeclarations[i][2]
       /\ ~decoded.read.panic
       /\ decoded.read.symbol_data \in 0..255
       /\ decoded.read.bits \in 3..16
       /\ decoded.dropped = decoded.read.bits

\* a word of zeros read with the static table: a code of 16 bits, decoded by
\* the slow path
C27_Witness ==
    /\ pc = "dict"
    /\ decoded.pattern = 0
    /\ decoded.read.bits = 16
    /\ decoded.dropped = 16
    /\ ~decoded.read.panic

\* ------------------------------------------------------------------------
\* The texture pull_byte with a skip period: successive calls on one input
\* ------------------------------------------------------------------------
\* the longest input, the largest skipped_bytes and the calls made
MaxSkipLen == 30
MaxSkipPeriod == 4
MaxPulls == 9

\* the inputs: the bytes 1, 2, 3, ... up to every length, so that every word
\* differs from every other
SkipInputs == { [i \in 1..n |-> i] \o << >> : n \in 0..MaxSkipLen }

SkipInit ==
    /\ input_data \in SkipInputs
    /\ build \in {"debug", "release"}
    /\ \E skipped_bytes \in 0..MaxSkipPeriod :
          state_data = TextureStateData(input_data, skipped_bytes)
    /\ output_data_size = 0
    /\ output_data = << >>
    /\ output_twin = << >>
    /\ output_position = 0
    /\ write_size_const_addition = 0
    /\ huffmantree_symbol = HuffmanTree
    /\ huffmantree_copy = HuffmanTree
    /\ huffmantree_builder = HuffmanTreeBuilder
    /\ max_count = 0
    /\ current_code_read_count = 0
    /\ token = NoToken
    /\ declarations = << >>
    /\ decoded = [words |-> << >>]
    /\ pc = "pull"

\* one call of pull_byte: the word and the bit count it hands out are
\* recorded, or the call returns the Err of read_u32
SkipPullStep(err, next) ==
    /\ pc = "pull"
    /\ Len(decoded.words) < MaxPulls
    /\ LET p == texture_pull_byte(input_data, state_data)
       IN  /\ p.err = err
           /\ state_data' = p.state
           /\ decoded' = [words |-> IF err THEN decoded.words
                                    ELSE Append(decoded.words,
                                                <<p.head_data,
                                                  p.bytes_available_data>>)]
    /\ pc' = next
    /\ UNCHANGED <<input_data, build, output_data_size, output_data, output_twin,
                   output_position, write_size_const_addition, huffmantree_symbol,
                   huffmantree_copy, huffmantree_builder, max_count,
                   current_code_read_count, token, declarations>>

SkipPull == SkipPullStep(FALSE, "pull")
SkipPullErr == SkipPullStep(TRUE, "err")

SkipNext == SkipPull \/ SkipPullErr

SpecSkip == SkipInit /\ [][SkipNext]_vars

\* the m-th word the reader delivers by the rule "the whole words of the input
\* without those at the 1-based positions N, 2N, 3N, ..., then no bits": for
\* N >= 2 the m-th position that is no multiple of N is m + (m - 1) / (N - 1),
\* for N = 1 no word is left, for N = 0 every word is delivered
SkipExpected(input, skipped_bytes, m) ==
    LET k == IF skipped_bytes = 0 THEN m
             ELSE IF skipped_bytes = 1 THEN Len(input) \div 4 + 1
             ELSE m + (m - 1) \div (skipped_bytes - 1)
    IN  IF k <= Len(input) \div 4
        THEN <<read_u32_le(input[4 * k - 3], input[4 * k - 2], input[4 * k - 1],
                           input[4 * k]), 32>>
        ELSE <<Zero32, 0>>

\* C28 as stated: for every skip period N and every input the words pull_byte
\* delivers are the whole words of the input without those at the positions
\* N, 2N, 3N, ..., followed by no bits (word 0, 0 bits) for ever; no call
\* fails, also when the discarded word is the last whole word; with N = 0 no
\* word is discarded.
C28_Original ==
    /\ pc # "err"
    /\ pc = "pull" =>
          \A m \in 1..Len(decoded.words) :
             decoded.words[m]
                = SkipExpected(input_data, state_data.skipped_bytes, m)

\* ------------------------------------------------------------------------
\* DatFile::extract_mft_data: the entry's bytes read chunk by chunk
\* ------------------------------------------------------------------------
\* 0x10000: the stored bytes of one chunk, its CRC word included
ChunkSize == 65536

\* the stored sizes of the entries: small ones, and the sizes around one and
\* two whole chunks
MftSizes ==
    (4..40) \cup {65535, 65536, 65537, 65539, 65540, 65541, 131072, 131076, 131080}

\* the stored bytes of an entry of a size: no chunk repeats another
MftEntry(size) == [i \in 1..size |-> (7 * i + (i \div ChunkSize)) % 251] \o << >>

\* input_data is the stored entry, output_data is buffer_data,
\* output_position the bytes read from the entry's offset, max_count is
\* chunk_count and current_code_read_count the chunks read
MftInit ==
    /\ input_data \in { MftEntry(size) : size \in MftSizes }
    /\ build \in {"debug", "release"}
    /\ state_data = StateData(<< >>)
    /\ output_data_size = 0
    /\ output_data = << >>
    /\ output_twin = << >>
    /\ output_position = 0
    /\ write_size_const_addition = 0
    /\ huffmantree_symbol = HuffmanTree
    /\ huffmantree_copy = HuffmanTree
    /\ huffmantree_builder = HuffmanTreeBuilder
    /\ max_count = 0
    /\ current_code_read_count = 0
    /\ token = NoToken
    /\ declarations = << >>
    /\ decoded = [result_crc |-> << >>, last_chunk_size |-> 0]
    /\ pc = "extract"

\* lines 249-250: chunk_count and last_chunk_size.  The usize subtraction
\* (buffer_size % 0x10000) - 4 panics in a debug build when the remainder is
\* below 4 and wraps in a release build; the wrapped value 2^64 + remainder - 4
\* is kept as the negative number remainder - 4
MftStart ==
    /\ pc = "extract"
    /\ Len(input_data) % ChunkSize >= 4 \/ build = "release"
    /\ max_count' = Len(input_data) \div ChunkSize
    /\ decoded' = [decoded EXCEPT
                      !.last_chunk_size = (Len(input_data) % ChunkSize) - 4]
    /\ pc' = "chunks"
    /\ UNCHANGED <<input_data, build, state_data, output_data_size, output_data,
                   output_twin, output_position, write_size_const_addition,
                   huffmantree_symbol, huffmantree_copy, huffmantree_builder,
                   current_code_read_count, token, declarations>>

\* line 250 in a debug build: attempt to subtract with overflow
MftStartPanic ==
    /\ pc = "extract"
    /\ Len(input_data) % ChunkSize < 4
    /\ build = "debug"
    /\ pc' = "abort"
    /\ UNCHANGED <<input_data, build, state_data, output_data_size, output_data,
                   output_twin, output_position, write_size_const_addition,
                   huffmantree_symbol, huffmantree_copy, huffmantree_builder,
                   max_count, current_code_read_count, token, declarations,
                   decoded>>

\* lines 258-264: one whole chunk, 0x10000 - 4 bytes to buffer_data and the
\* CRC word to result_crc
MftChunk ==
    /\ pc = "chunks"
    /\ current_code_read_count < max_count
    /\ output_data' = output_data
                      \o SubSeq(input_data, output_position + 1,
                                output_position + ChunkSize - 4)
    /\ decoded' = [decoded EXCEPT
                      !.result_crc =
                          Append(@, read_u32_le(
                                       input_data[output_position + ChunkSize - 3],
                                       input_data[output_position + ChunkSize - 2],
                                       input_data[output_position + ChunkSize - 1],
                                       input_data[output_position + ChunkSize]))]
    /\ output_position' = output_position + ChunkSize
    /\ current_code_read_count' = current_code_read_count + 1
    /\ UNCHANGED <<input_data, build, state_data, output_data_size, output_twin,
                   write_size_const_addition, huffmantree_symbol, huffmantree_copy,
                   huffmantree_builder, max_count, token, declarations, pc>>

\* lines 267-271: the last chunk, last_chunk_size bytes and its CRC word; the
\* buffer is then handed to the decoder (line 291)
MftLast ==
    /\ pc = "chunks"
    /\ current_code_read_count = max_count
    /\ decoded.last_chunk_size >= 0
    /\ output_data' = output_data
                      \o SubSeq(input_data, output_position + 1,
                                output_position + decoded.last_chunk_size)
    /\ decoded' = [decoded EXCEPT
                      !.result_crc =
                          Append(@, read_u32_le(
                                       input_data[output_position
                                                  + decoded.last_chunk_size + 1],
                                       input_data[output_position
                                                  + decoded.last_chunk_size + 2],
                                       input_data[output_position
                                                  + decoded.last_chunk_size + 3],
                                       input_data[output_position
                                                  + decoded.last_chunk_size + 4]))]
    /\ output_position' = output_position + decoded.last_chunk_size + 4
    /\ pc' = "handed"
    /\ UNCHANGED <<input_data, build, state_data, output_data_size, output_twin,
                   write_size_const_addition, huffmantree_symbol, huffmantree_copy,
                   huffmantree_builder, max_count, current_code_read_count, token,
                   declarations>>

\* line 267 in a release build: Vec::with_capacity of the wrapped
\* last_chunk_size panics with capacity overflow
MftLastPanic ==
    /\ pc = "chunks"
    /\ current_code_read_count = max_count
    /\ decoded.last_chunk_size < 0
    /\ pc' = "abort"
    /\ UNCHANGED <<input_data, build, state_data, output_data_size, output_data,
                   output_twin, output_position, write_size_const_addition,
                   huffmantree_symbol, huffmantree_copy, huffmantree_builder,
                   max_count, current_code_read_count, token, declarations,
                   decoded>>

MftNext ==
    \/ MftStart
    \/ MftStartPanic
    \/ MftChunk
    \/ MftLast
    \/ MftLastPanic

SpecMft == MftInit /\ [][MftNext]_vars

\* the stored bytes without the last 4 bytes of every 64 KB chunk and of the
\* final partial chunk: S - 4 * ceil(S / 65536) bytes
MftStripped(entry) ==
    [i \in 1..(Len(entry) - 4 * ((Len(entry) + ChunkSize - 1) \div ChunkSize))
        |-> entry[i + 4 * ((i - 1) \div (ChunkSize - 4))]] \o << >>

\* C30 as stated: for every stored size S >= 4, also a multiple of 65536 or
\* one exceeded by fewer than 4 bytes, extract_mft_data hands the decoder the
\* entry's bytes with the trailing 4 bytes of each 64 KB chunk and of the
\* final partial chunk removed, in order.
C30_Original ==
    /\ pc # "abort"
    /\ pc = "handed" => output_data = MftStripped(input_data)


\* C29 as stated: every read_code call on a successfully built table drops at
\* least 1 and at most 31 bits and returns a symbol declared in that table,
\* for every 32-bit word, including words that begin with no declared code of
\* an incomplete table.
C29_Original ==
    pc = "peeked" =>
        /\ ~decoded.read.panic
        /\ decoded.read.bits \in 1..(MAX_CODE_BITS_LENGTH - 1)
        /\ decoded.dropped = decoded.read.bits
        /\ \E j \in 1..Len(declarations) :
              declarations[j][1] = decoded.read.symbol_data

====
